---- MODULE Spec2Model ----
(***************************************************************************)
(* A model of the event kernel of the A-Priori physics system: the tick    *)
(* loop of game.py (_Game.run, _calc_next_frame, _next_event), the pause   *)
(* switch, the key-event adapter of event.py, and the bookkeeping of       *)
(* physics.Intersection and entity.Collidable.invalidate_intersections.    *)
(*                                                                         *)
(* Time.  Python computes with floats; the model computes exactly.  Game   *)
(* times are integers (game ms).  Real times (current_time,                *)
(* _next_frame_time, RealEvent.time, the wall clock) are integers counting *)
(* 1/Den ms, with Den a common multiple of every speed of the model, so    *)
(* that the division (ev.time - game_time) / _speed is exact.              *)
(*                                                                         *)
(* Geometry.  The trajectories of the entities are not part of the state:  *)
(* what the predictor (entity_intersections) finds for a pair, and what    *)
(* check_resting_state answers, are nondeterministic choices over the      *)
(* values those functions can return.                                      *)
(***************************************************************************)
EXTENDS Integers, Sequences, FiniteSets, TLC

\* ------------------------------------------------------------------ bounds
MaxSpeed == 2          \* speeds 1..MaxSpeed
MaxClock == 6          \* the wall clock runs up to MaxClock ms
MaxDelay == 1          \* ms of wall clock one pass of the loop of run takes: 1..MaxDelay
FrameMs == 2           \* delta_frame_time = 1000 / fps, in ms
MaxEventTime == 3      \* latest impact time of an initially predicted intersection
MaxInit == 2           \* number of intersections predicted at level load
MaxKeyEvents == 3      \* key transitions over a run in which the predictor finds nothing
MaxHits == 1           \* impacts the predictor finds over a run
MaxHitKeys == 1        \* key transitions over a run in which the predictor finds impacts
MaxCalls == 4          \* calls of one operation exercised alone

RECURSIVE Fact(_)
Fact(n) == IF n <= 1 THEN 1 ELSE n * Fact(n - 1)

\* real-time units per millisecond
Den == Fact(MaxSpeed)

\* ------------------------------------------------------- program constants
\* float("inf"), as a time no event of the model reaches
INFINITY == 1000000
\* float("nan"): every comparison with it is false
NAN == -1000000
\* _real_speed is None
None == -1

\* the keys bound in cfg/keyboard.json, in key-code order
Keys == <<"quit", "pause", "jetpack_up">>
KeySet == {Keys[i] : i \in 1..Len(Keys)}

\* the collidable entities of the level; Movables have velocity and acceleration
Movables == {"player", "b1", "b2"}
Collidables == Movables \cup {"ground"}

VARIABLES
    clock,              \* pygame.time.get_ticks() - _delay_time, in ms
    pc,                 \* "run": top of the loop of run; "frame": in the loop of _calc_next_frame;
                        \* "quit": Quit was raised; "error": another exception was raised
    current_time,       \* _Game.current_time
    game_time,          \* _Game.game_time
    _next_frame_time,   \* _Game._next_frame_time
    _speed,             \* _Game._speed
    _real_speed,        \* _Game._real_speed
    game_events,        \* _Game.game_events: sequence of object ids
    real_events,        \* _Game.real_events: sequence of key events
    _CurrentState,      \* event._CurrentState
    objs,               \* the GameEvent objects alive, by id
    resting,            \* entity -> its resting list
    nkeys,              \* key transitions so far
    nhits,              \* impacts the predictor has found so far
    budget,             \* what the environment does over this run, at most
    ever_paused,        \* history: the game has been paused at some time
    dispatched_at,      \* history: projected real time of the event dispatched most recently
    last,               \* history: what the most recent step did
    probe               \* the object under test when one operation is exercised alone

vars == <<clock, pc, current_time, game_time, _next_frame_time, _speed, _real_speed,
          game_events, real_events, _CurrentState, objs, resting, nkeys, nhits, budget,
          ever_paused, dispatched_at, last, probe>>

\* ------------------------------------------------------------ util
Abs(x) == IF x < 0 THEN -x ELSE x

\* util.ZeroDivide(a, b) for a real-time quotient of a game-time span a by a speed b
ZeroDivide(a, b) ==
    IF b = 0 THEN (IF a = 0 THEN NAN ELSE IF a > 0 THEN INFINITY ELSE -INFINITY)
    ELSE IF Abs(a) >= INFINITY THEN a
    ELSE (a * Den) \div b

\* util.FloatEqual(a, b)
FloatEqual(a, b) == a = b

\* sequence helpers
SeqToSet(s) == {s[i] : i \in 1..Len(s)}

\* ------------------------------------------------------------ pause
\* _Game.paused (getter)
paused == _real_speed # None

\* a pause that records the speed and leaves _speed running
SetPaused_keep(pause, sp, rsp) ==
    IF (rsp # None) = pause THEN <<sp, rsp>>
    ELSE IF pause THEN <<sp, sp>>
    ELSE <<rsp, None>>

\* a pause that stores the effective speed again when the game is already paused
SetPaused_overwrite(pause, sp, rsp) ==
    IF pause THEN <<0, sp>>
    ELSE IF rsp # None THEN <<rsp, None>>
    ELSE <<sp, rsp>>

\* _Game.paused (setter): the pair <<_speed, _real_speed>> after  self.paused = pause
SetPaused(pause, sp, rsp) ==
    IF (rsp # None) = pause THEN <<sp, rsp>>
    ELSE IF pause THEN <<0, sp>>
    ELSE <<rsp, None>>

\* _Game.pause(paused=None): flip
Pause(sp, rsp) == SetPaused(~(rsp # None), sp, rsp)

\* _Game.pause(paused) with an argument: self.paused = bool(paused)
PauseTo(p, sp, rsp) == SetPaused(p, sp, rsp)

\* _Game.speed (getter)
speed == IF ~paused THEN _speed ELSE _real_speed

\* ------------------------------------------------------------ input adapter
\* the key events one poll emits, in key-code order, for the keys Keys[i..]
RECURSIVE KeyEvents(_, _, _, _)
KeyEvents(i, was, now, t) ==
    IF i > Len(Keys) THEN <<>>
    ELSE LET k == Keys[i]
             press == IF k \in now /\ k \notin was
                      THEN <<[time |-> t, key |-> k, press |-> TRUE, invalid |-> FALSE]>> ELSE <<>>
             release == IF k \in was /\ k \notin now
                        THEN <<[time |-> t, key |-> k, press |-> FALSE, invalid |-> FALSE]>> ELSE <<>>
         IN press \o release \o KeyEvents(i + 1, was, now, t)

\* event.check_for_new_events(current_time, provider) when pygame.key.get_pressed()
\* reports the keys of `now` down: _CurrentState is [] before the first poll, so the
\* first poll emits nothing
check_for_new_events(t, now) ==
    IF _CurrentState.polled THEN KeyEvents(1, _CurrentState.pressed, now, t) ELSE <<>>

\* the keys whose state differs between the stored snapshot and `now`
Transitions(now) ==
    Cardinality((_CurrentState.pressed \ now) \cup (now \ _CurrentState.pressed))

\* event.update(time): poll the keys and put the key events into the real queue
update(q, t, now) == q \o check_for_new_events(t, now)

\* ------------------------------------------------------------ entities and intersections
\* entity.Collidables, in creation order
CollidableSeq == <<"player", "b1", "b2", "ground">>

\* exclude=None of find_intersections
NoEntity == "none"

\* what entity_intersections may find for a pair: nothing (None), or one impact
\* del_time ms of game time ahead
PredDels == {0, 2}
PredChoices == {None} \cup PredDels
\* what find_stop_resting may do: raise (None), or return a StopResting that far ahead
StopChoices == {None, 2}

\* the impacts among the findings ch
Hits(ch) == Cardinality({p \in DOMAIN ch : ch[p] # None})

\* the findings of the predictor for the pairs P
Findings(P) == {ch \in [P -> PredChoices] : nhits + Hits(ch) <= budget.hits}

\* physics.Intersection.__init__ / physics.StopResting.__init__: a new event object;
\* lists is the set of entities whose intersections list holds it, stale the history
\* flag "a participant's velocity or acceleration was written after the prediction"
NewObj(cls, e, o, t, d, ls) ==
    [cls |-> cls, ent |-> e, oth |-> o, point_index |-> 0, line_index |-> 0,
     time |-> t, del_time |-> d, invalid |-> FALSE, lists |-> ls, stale |-> FALSE]

\* the objects something still refers to (a queue or an intersections list)
Live(O) ==
    LET keep == {i \in DOMAIN O : i \in SeqToSet(game_events) \/ O[i].lists # {}}
    IN [i \in keep |-> O[i]]

MaxId(O) == IF DOMAIN O = {} THEN 0 ELSE CHOOSE m \in DOMAIN O : \A i \in DOMAIN O : i <= m

\* add the objects of the sequence news, with the next free ids
AddObjs(O, news) ==
    LET base == MaxId(O)
        dom == DOMAIN O \cup {base + k : k \in 1..Len(news)}
    IN [i \in dom |-> IF i \in DOMAIN O THEN O[i] ELSE news[i - base]]
NewIds(O, news) == [k \in 1..Len(news) |-> MaxId(O) + k]

\* physics.entity_intersections(provider, ent, oth), c the predictor's finding
entity_intersections(gt, ent, oth, c) ==
    IF c = None THEN <<>>
    ELSE <<NewObj("Intersection", ent, oth, gt + c, c, {})>>

\* physics.find_pair_intersections(provider, ent, oth)
find_pair_intersections(gt, ent, oth, c) == entity_intersections(gt, ent, oth, c)

\* physics.find_intersections(provider, ent, exclude), over CollidableSeq[i..]
RECURSIVE find_intersections_from(_, _, _, _, _)
find_intersections_from(i, gt, ent, exclude, ch) ==
    IF i > Len(CollidableSeq) THEN <<>>
    ELSE LET oth == CollidableSeq[i]
         IN (IF oth = ent \/ oth = exclude THEN <<>>
             ELSE find_pair_intersections(gt, ent, oth, ch[<<ent, oth>>]))
            \o find_intersections_from(i + 1, gt, ent, exclude, ch)
find_intersections(gt, ent, exclude, ch) == find_intersections_from(1, gt, ent, exclude, ch)

\* the pairs find_intersections(ent, exclude) asks the predictor about
PairsOf(ent, exclude) == {<<ent, o>> : o \in Collidables \ {ent, exclude}}

\* an invalidation that empties the list of e and sets no flag
invalidate_intersections_noflag(O, e) ==
    [i \in DOMAIN O |-> IF e \in O[i].lists THEN [O[i] EXCEPT !.lists = @ \ {e}] ELSE O[i]]

\* entity.Collidable.invalidate_intersections, for entity e
invalidate_intersections(O, e) ==
    [i \in DOMAIN O |->
        IF e \in O[i].lists THEN [O[i] EXCEPT !.invalid = TRUE, !.lists = @ \ {e}] ELSE O[i]]

\* ent.intersections.extend(news): every object of the sequence joins e's list
ExtendList(news, e) == [k \in 1..Len(news) |-> [news[k] EXCEPT !.lists = @ \cup {e}]]

\* history: Movable.velocity / Movable.acceleration of e was written
Written(O, e) ==
    IF e \notin Movables THEN O
    ELSE [i \in DOMAIN O |->
            IF e \in {O[i].ent, O[i].oth} THEN [O[i] EXCEPT !.stale = TRUE] ELSE O[i]]

\* ------------------------------------------------------------ handlers
\* a skip that looks at no resting contact
RestingSkip_never(R, x) == FALSE

\* the skip of physics.py:221-226: a resting contact of the two entities covers the
\* same point and line
RestingSkip(R, x) ==
    \/ \E k \in 1..Len(R[x.ent]) :
          /\ (R[x.ent][k].ent = x.oth \/ R[x.ent][k].oth = x.oth)
          /\ R[x.ent][k].line_index = x.line_index
          /\ R[x.ent][k].point_index = x.point_index
    \/ \E k \in 1..Len(R[x.oth]) :
          /\ (R[x.oth][k].ent = x.ent \/ R[x.oth][k].oth = x.ent)
          /\ R[x.oth][k].line_index = x.line_index
          /\ R[x.oth][k].point_index = x.point_index

\* skips that ignore del_time
Skipped_late(O, R, id) ==
    \/ O[id].invalid
    \/ RestingSkip(R, O[id])

\* skips that ignore the invalid flag
Skipped_flagless(O, R, id) ==
    \/ FloatEqual(O[id].del_time, 0)
    \/ RestingSkip(R, O[id])

\* physics.py:215-226: the intersection is skipped
Skipped(O, R, id) ==
    \/ O[id].invalid
    \/ FloatEqual(O[id].del_time, 0)
    \/ RestingSkip(R, O[id])

\* the pairs Intersection.__call__ asks the predictor about
CallPairs(x) == {<<x.ent, x.oth>>} \cup PairsOf(x.ent, x.oth) \cup PairsOf(x.oth, x.ent)

\* a handler that records the contact with the mover alone, mover first
IntersectionCall_mover(O, R, gt, id, rest, stop, ch) ==
    LET x == O[id]
        e == x.ent
        o == x.oth
        mover == IF e \notin Movables THEN o ELSE e
        other == IF e \notin Movables THEN e ELSE o
        contact == [ent |-> mover, oth |-> other, point_index |-> x.point_index,
                    line_index |-> x.line_index]
        O1 == IF rest THEN Written(O, mover) ELSE Written(Written(O, e), o)
        R1 == IF rest THEN [R EXCEPT ![mover] = Append(@, contact)] ELSE R
        stops == IF rest THEN <<NewObj("StopResting", e, o, gt + stop, stop, {})>> ELSE <<>>
        O2 == invalidate_intersections(invalidate_intersections(O1, e), o)
        pairnew == ExtendList(ExtendList(find_pair_intersections(gt, e, o, ch[<<e, o>>]), e), o)
        entnew == ExtendList(find_intersections(gt, e, o, ch), e)
        othnew == ExtendList(find_intersections(gt, o, e, ch), o)
        news == stops \o pairnew \o entnew \o othnew
    IN IF Skipped(O, R, id)
       THEN [objs |-> O, resting |-> R, ret |-> <<>>, how |-> "skipped"]
       ELSE IF rest /\ stop = None
       THEN [objs |-> O1, resting |-> R1, ret |-> <<>>, how |-> "error"]
       ELSE [objs |-> AddObjs(O2, news), resting |-> R1, ret |-> NewIds(O2, news),
             how |-> IF rest THEN "resting" ELSE "reflected"]

\* physics.Intersection.__call__ for the object id at game time gt.  rest is the
\* answer of check_resting_state, stop what find_stop_resting does, ch the findings
\* of the predictor.  ret: the ids of the returned game events (no handler of the
\* program returns a real event)
IntersectionCall(O, R, gt, id, rest, stop, ch) ==
    LET x == O[id]
        e == x.ent
        o == x.oth
        mover == IF e \notin Movables THEN o ELSE e
        contact == [ent |-> e, oth |-> o, point_index |-> x.point_index,
                    line_index |-> x.line_index]
        O1 == IF rest THEN Written(O, mover) ELSE Written(Written(O, e), o)
        R1 == IF rest THEN [R EXCEPT ![e] = Append(@, contact), ![o] = Append(@, contact)]
              ELSE R
        stops == IF rest THEN <<NewObj("StopResting", e, o, gt + stop, stop, {})>> ELSE <<>>
        O2 == invalidate_intersections(invalidate_intersections(O1, e), o)
        pairnew == ExtendList(ExtendList(find_pair_intersections(gt, e, o, ch[<<e, o>>]), e), o)
        entnew == ExtendList(find_intersections(gt, e, o, ch), e)
        othnew == ExtendList(find_intersections(gt, o, e, ch), o)
        news == stops \o pairnew \o entnew \o othnew
    IN IF Skipped(O, R, id)
       THEN [objs |-> O, resting |-> R, ret |-> <<>>, how |-> "skipped"]
       ELSE IF rest /\ stop = None
       THEN [objs |-> O1, resting |-> R1, ret |-> <<>>, how |-> "error"]
       ELSE [objs |-> AddObjs(O2, news), resting |-> R1, ret |-> NewIds(O2, news),
             how |-> IF rest THEN "resting" ELSE "reflected"]

\* physics.StopResting.__call__
StopRestingCall(O, R) == [objs |-> O, resting |-> R, ret |-> <<>>, how |-> "stop"]

\* Player._jetpack_up(on) and controls.reset_player: write the player's trajectory,
\* invalidate its intersections, predict its new ones into its own list
Retarget(O, gt, ch) ==
    LET O1 == invalidate_intersections(Written(O, "player"), "player")
        ints == ExtendList(find_intersections(gt, "player", NoEntity, ch), "player")
    IN [objs |-> AddObjs(O1, ints), ret |-> NewIds(O1, ints)]

\* event._KeyPress.__call__ / event._KeyRelease.__call__ with the handlers
\* controls.init registers: quit, pause and reset on the press of their keys,
\* _jetpack_up on both edges of its key
KeyCall(O, sp, rsp, gt, ev, ch) ==
    IF ev.press /\ ev.key = "quit"
    THEN [objs |-> O, speeds |-> <<sp, rsp>>, ret |-> <<>>, how |-> "quit"]
    ELSE IF ev.press /\ ev.key = "pause"
    THEN [objs |-> O, speeds |-> Pause(sp, rsp), ret |-> <<>>, how |-> "pause"]
    ELSE IF (ev.press /\ ev.key = "reset") \/ ev.key = "jetpack_up"
    THEN [objs |-> Retarget(O, gt, ch).objs, speeds |-> <<sp, rsp>>,
          ret |-> Retarget(O, gt, ch).ret, how |-> ev.key]
    ELSE [objs |-> O, speeds |-> <<sp, rsp>>, ret |-> <<>>, how |-> "nothing"]

\* ------------------------------------------------------------ scheduler
\* the time of the head of a queue, INFINITY for the dummy event of an empty queue
GameHeadTime == IF game_events = <<>> THEN INFINITY ELSE objs[Head(game_events)].time
RealHeadTime == IF real_events = <<>> THEN INFINITY ELSE Head(real_events).time

\* game.py:114 and 127: the head game event's time-to-event, in real time
game_delta_time ==
    ZeroDivide(Abs(IF GameHeadTime = INFINITY THEN INFINITY ELSE GameHeadTime - game_time),
               _speed)
\* game.py:115
real_delta_time ==
    IF RealHeadTime = INFINITY THEN INFINITY ELSE RealHeadTime - current_time

\* a scheduler that takes the head game event whenever the game runs, in the frame
\* or not, and checks no timestamp
_next_event_eager(frame_delta) ==
    IF game_events # <<>> /\ _speed # 0 THEN "game"
    ELSE IF real_delta_time > frame_delta THEN "none"
    ELSE "real"

\* a scheduler that gives a tie to the game event
_next_event_le(frame_delta) ==
    IF GameHeadTime < game_time \/ RealHeadTime < current_time THEN "raise"
    ELSE IF game_delta_time > frame_delta \/ game_delta_time = NAN
    THEN (IF real_delta_time > frame_delta THEN "none" ELSE "real")
    ELSE IF real_delta_time > frame_delta THEN "game"
    ELSE IF game_delta_time <= real_delta_time THEN "game"
    ELSE "real"

\* _Game._next_event(frame_delta): which head is next ("game", "real"), "none", or
\* "raise" for the exception of game.py:118-121
_next_event(frame_delta) ==
    IF GameHeadTime < game_time \/ RealHeadTime < current_time THEN "raise"
    ELSE IF game_delta_time > frame_delta \/ game_delta_time = NAN
    THEN (IF real_delta_time > frame_delta THEN "none" ELSE "real")
    ELSE IF real_delta_time > frame_delta THEN "game"
    ELSE IF game_delta_time < real_delta_time THEN "game"
    ELSE "real"

\* event.GameEvent.real_time of the object id, before it is called
GameEvent_real_time(id) == current_time + ZeroDivide(objs[id].time - game_time, _speed)

\* game.py:162 and 173: the real time to advance by
GameDelta(ev) == ((ev.time - game_time) * Den) \div _speed
RealDelta(ev) == ev.time - current_time

\* an advance of game_time that forgets the speed
AdvanceGame_nospeed(gt, delta_time, sp) == gt + delta_time \div Den

\* game.py:165 and 176: game_time += delta_time * self._speed
AdvanceGame(gt, delta_time, sp) == gt + (delta_time * sp) \div Den

\* a sweep that removes nothing
SweepGame_none(q, O) == q

\* game.py:191-192
SweepGame(q, O) == SelectSeq(q, LAMBDA i : ~O[i].invalid)
SweepReal(q) == SelectSeq(q, LAMBDA e : ~e.invalid)

\* history: both heads are due within the frame at the same real time
Tie ==
    /\ game_events # <<>> /\ real_events # <<>>
    /\ game_delta_time # NAN
    /\ game_delta_time = real_delta_time
    /\ real_delta_time <= _next_frame_time - current_time

NoLast ==
    [kind |-> "init", id |-> 0, key |-> "", time |-> 0, proj |-> 0, prev |-> 0, rt |-> 0,
     gt |-> 0,
     was_paused |-> FALSE, tie |-> FALSE, how |-> "", stale |-> FALSE, ret |-> <<>>,
     end_of_tick |-> FALSE, pre_game |-> <<>>, pre_real |-> <<>>]

\* the end of one pass of the loop of _calc_next_frame (game.py:188-192): poll the
\* keys, and when the loop ends, sweep.  A pass takes less than a millisecond: the
\* clock reads, and the keys are, as at the top of run
EndIteration(ct, gt, O, R, speeds, gq, rq, L, hits) ==
    LET rq1 == update(rq, clock * Den, _CurrentState.pressed)
        done == ~(ct < _next_frame_time)
    IN /\ current_time' = ct
       /\ game_time' = gt
       /\ objs' = O
       /\ resting' = R
       /\ _speed' = speeds[1]
       /\ _real_speed' = speeds[2]
       /\ game_events' = IF done THEN SweepGame(gq, O) ELSE gq
       /\ real_events' = IF done THEN SweepReal(rq1) ELSE rq1
       /\ pc' = IF done THEN "run" ELSE "frame"
       /\ ever_paused' = (ever_paused \/ speeds[2] # None)
       /\ dispatched_at' = IF L.kind \in {"game", "real"} THEN L.proj ELSE dispatched_at
       /\ last' = [L EXCEPT !.end_of_tick = done, !.pre_game = gq, !.pre_real = rq1]
       /\ nhits' = nhits + hits
       /\ UNCHANGED <<clock, _next_frame_time, _CurrentState, nkeys, budget, probe>>

\* an exception that is swallowed: the pass of the loop ends as any other
Raised_swallowed(to, ct, gt, O, R, L, hits) ==
    EndIteration(ct, gt, O, R, <<_speed, _real_speed>>, game_events, real_events, L, hits)

\* an exception leaves the loop: nothing after the raise happens
Raised(to, ct, gt, O, R, L, hits) ==
    /\ pc' = to
    /\ current_time' = ct
    /\ game_time' = gt
    /\ objs' = O
    /\ resting' = R
    /\ dispatched_at' = IF L.kind \in {"game", "real"} THEN L.proj ELSE dispatched_at
    /\ last' = L
    /\ nhits' = nhits + hits
    /\ UNCHANGED <<clock, _next_frame_time, _speed, _real_speed, game_events, real_events,
                   _CurrentState, nkeys, budget, ever_paused, probe>>

\* _Game.run, one pass of its loop up to the call of _calc_next_frame (game.py:213-226
\* and 230): the wall clock has advanced by d ms (pygame.time.delay(1))
RunIteration ==
    /\ pc = "run"
    /\ \E d \in 1..MaxDelay, now \in SUBSET KeySet :
        /\ clock + d <= MaxClock
        /\ nkeys + Transitions(now) <= budget.keys
        /\ clock' = clock + d
        /\ _next_frame_time' = (clock + d) * Den
        /\ real_events' = update(real_events, (clock + d) * Den, now)
        /\ _CurrentState' = [polled |-> TRUE, pressed |-> now]
        /\ nkeys' = nkeys + Transitions(now)
        /\ pc' = IF (clock + d) * Den - current_time >= FrameMs * Den THEN "frame" ELSE "run"
        /\ last' = [NoLast EXCEPT !.kind = "poll"]
        /\ objs' = Live(objs)
        /\ UNCHANGED <<current_time, game_time, _speed, _real_speed, game_events, resting,
                       nhits, budget, ever_paused, dispatched_at, probe>>

\* game.py:160-170: the head game event is next
DispatchGame ==
    /\ pc = "frame"
    /\ _next_event(_next_frame_time - current_time) = "game"
    /\ LET id == Head(game_events)
           O == Live(objs)
           ev == O[id]
           delta_time == GameDelta(ev)
           gt == AdvanceGame(game_time, delta_time, _speed)
           ct == current_time + delta_time
           skip == ev.cls = "StopResting" \/ Skipped(O, resting, id)
       IN \E rest \in (IF skip THEN {FALSE} ELSE BOOLEAN),
             stop \in (IF skip THEN {None} ELSE StopChoices),
             ch \in Findings(IF skip THEN {} ELSE CallPairs(ev)) :
            LET h == IF ev.cls = "StopResting" THEN StopRestingCall(O, resting)
                     ELSE IntersectionCall(O, resting, gt, id, rest, stop, ch)
                L == [NoLast EXCEPT !.kind = "game", !.id = id, !.time = ev.time,
                                    !.proj = GameEvent_real_time(id), !.prev = dispatched_at,
                                    !.rt = ct, !.gt = gt,
                                    !.was_paused = paused, !.tie = Tie, !.how = h.how,
                                    !.stale = ev.stale, !.ret = h.ret]
            IN IF h.how = "error"
               THEN Raised("error", ct, gt, h.objs, h.resting, L, Hits(ch))
               ELSE EndIteration(ct, gt, h.objs, h.resting, <<_speed, _real_speed>>,
                                 Tail(game_events), real_events, L, Hits(ch))

\* game.py:171-181: the head real event is next
DispatchReal ==
    /\ pc = "frame"
    /\ _next_event(_next_frame_time - current_time) = "real"
    /\ LET ev == Head(real_events)
           O == Live(objs)
           delta_time == RealDelta(ev)
           gt == AdvanceGame(game_time, delta_time, _speed)
           ct == current_time + delta_time
           predicts == (ev.press /\ ev.key = "reset") \/ ev.key = "jetpack_up"
       IN \E ch \in Findings(IF predicts THEN PairsOf("player", NoEntity) ELSE {}) :
            LET h == KeyCall(O, _speed, _real_speed, gt, ev, ch)
                L == [NoLast EXCEPT !.kind = "real", !.key = ev.key, !.time = ev.time,
                                    !.proj = ev.time, !.prev = dispatched_at, !.rt = ct,
                                    !.gt = gt,
                                    !.was_paused = paused, !.tie = Tie, !.how = h.how,
                                    !.ret = h.ret]
            IN IF h.how = "quit"
               THEN Raised("quit", ct, gt, h.objs, resting, L, Hits(ch))
               ELSE EndIteration(ct, gt, h.objs, resting, h.speeds,
                                 game_events, Tail(real_events), L, Hits(ch))

\* game.py:182-185: no event is due within the frame; or the exception of
\* _next_event (game.py:118-121)
CatchUp ==
    /\ pc = "frame"
    /\ _next_event(_next_frame_time - current_time) \in {"none", "raise"}
    /\ IF _next_event(_next_frame_time - current_time) = "raise"
       THEN Raised("error", current_time, game_time, objs, resting,
                   [NoLast EXCEPT !.kind = "raise"], 0)
       ELSE EndIteration(_next_frame_time,
                         AdvanceGame(game_time, _next_frame_time - current_time, _speed),
                         Live(objs), resting, <<_speed, _real_speed>>,
                         game_events, real_events, [NoLast EXCEPT !.kind = "none"], 0)

\* ------------------------------------------------------------ initial state
\* the pairs the level's load predicts impacts for (point of the first on a line of
\* the second)
InitPairs == {<<"player", "b1">>, <<"b2", "ground">>, <<"ground", "player">>}
InitTimes == 0..MaxEventTime

\* the intersections predicted at game time 0, each in the lists of both participants
InitObjs ==
    {NewObj("Intersection", p[1], p[2], t, t, {p[1], p[2]}) : p \in InitPairs, t \in InitTimes}

\* game_events is kept sorted by time
Sorted(q) == \A i \in 1..Len(q) - 1 : q[i].time <= q[i + 1].time
Distinct(q) == \A i, j \in 1..Len(q) : i # j => q[i] # q[j]
InitQueues ==
    UNION {{q \in [1..n -> InitObjs] : Sorted(q) /\ Distinct(q)} : n \in 0..MaxInit}

\* no operation is exercised alone in a run of the game
NoProbe == [op |-> "none"]

\* the runs explored: the keyboard is worked and the predictor finds nothing, or the
\* predictor finds impacts and the keyboard is touched little
Budgets == {[keys |-> MaxKeyEvents, hits |-> 0], [keys |-> MaxHitKeys, hits |-> MaxHits]}

Init ==
    /\ clock = 0
    /\ pc = "run"
    /\ current_time = 0
    /\ game_time = 0
    /\ _next_frame_time = 0
    /\ _speed \in 1..MaxSpeed
    /\ _real_speed = None
    /\ \E q \in InitQueues :
        /\ objs = q
        /\ game_events = [i \in 1..Len(q) |-> i]
    /\ real_events = <<>>
    /\ _CurrentState = [polled |-> FALSE, pressed |-> {}]
    /\ resting = [e \in Collidables |-> <<>>]
    /\ nkeys = 0
    /\ nhits = 0
    /\ budget \in Budgets
    /\ ever_paused = FALSE
    /\ dispatched_at = 0
    /\ last = NoLast
    /\ probe = NoProbe

Next == RunIteration \/ DispatchGame \/ DispatchReal \/ CatchUp

Spec == Init /\ [][Next]_vars

\* ------------------------------------------------------------ the scheduler's claims
\* the most recent step dispatched an event
Dispatched == last.kind \in {"game", "real"}

\* C1: the events of the two queues are dispatched in non-decreasing projected real
\* time: the projected real time of a dispatched event (a game event's
\* current_time + (time - game_time) / _speed at its dispatch, a real event's own
\* time) is at least that of the event dispatched before it
C1_DispatchOrder == Dispatched => last.proj >= last.prev

\* a game event is dispatched strictly later than an earlier dispatch, at a real time
\* that is no whole millisecond
C1_Witness ==
    /\ last.kind = "game"
    /\ last.prev > 0
    /\ last.proj > last.prev
    /\ last.proj % Den # 0

\* C2: while the game is paused, no step dispatches a game event and game_time does
\* not move; a real event due within the frame is still dispatched
C2_Paused ==
    [][paused =>
        /\ game_time' = game_time
        /\ last'.kind # "game"
        /\ (pc = "frame" /\ RealHeadTime <= _next_frame_time => last'.kind = "real")]_vars

\* a real event was dispatched while the game was paused, with a game event pending
C2_Witness ==
    /\ last.kind = "real"
    /\ last.was_paused
    /\ game_events # <<>>

\* C3: every dispatched game event is dispatched with game_time equal to its time;
\* and when the game was never paused (the speed s is the initial one throughout),
\* the event of time T is dispatched at the real time T / s
C3_DispatchTime ==
    last.kind = "game" =>
        /\ last.gt = last.time
        /\ (~ever_paused => last.rt * _speed = last.time * Den)

\* a game event is dispatched after the game was paused and resumed
C3_Witness ==
    /\ last.kind = "game"
    /\ ever_paused
    /\ last.time > 0

\* C8: when the head game event and the head real event are due within the frame at
\* the same real time, the real event is the one dispatched
C8_TieReal == last.tie => last.kind = "real"

\* a tie was dispatched, the game event still queued behind it
C8_Witness ==
    /\ last.tie
    /\ last.kind = "real"
    /\ game_events # <<>>

\* ------------------------------------------------------------ the claims on invalidation
\* the most recent step called an intersection's handler and the handler went past
\* its skips
Resolved == last.kind = "game" /\ last.how \in {"reflected", "resting"}

\* C4: with several mobile collidables, no intersection is resolved after the velocity
\* or the acceleration of one of its participants was written since it was predicted:
\* whenever such a write has happened to a queued intersection its invalid flag is
\* set, and the handler of an intersection that goes past its skips meets no such write
C4_NoStaleResolution ==
    /\ (last.kind = "game" /\ last.how \in {"reflected", "resting", "error"} => ~last.stale)
    /\ (pc \in {"run", "frame"} =>
          \A i \in 1..Len(game_events) :
              objs[game_events[i]].stale => objs[game_events[i]].invalid)

\* an intersection whose participant was written after its prediction came to the
\* head of the queue, was called, and was skipped as invalid
C4_Witness ==
    /\ last.kind = "game"
    /\ last.stale
    /\ last.how = "skipped"
    /\ objs[last.id].invalid

\* the valid events of a queue, in their order
ValidGame(q, O) == SelectSeq(q, LAMBDA i : ~O[i].invalid)
ValidReal(q) == SelectSeq(q, LAMBDA e : ~e.invalid)

\* C10: an invalidation sets the flag and leaves the event where it is in its queue;
\* at the end of every tick no queue holds an invalid event, and the events that were
\* valid before the sweep are all still queued, in the same order
C10_Sweep ==
    [][/\ \A id \in SeqToSet(game_events) :
             (/\ ~objs[id].invalid /\ objs'[id].invalid
              /\ ~last'.end_of_tick
              /\ ~(last'.kind = "game" /\ last'.id = id))
             => /\ id \in SeqToSet(game_events')
                /\ [objs'[id] EXCEPT !.invalid = FALSE, !.lists = {}, !.stale = FALSE]
                   = [objs[id] EXCEPT !.invalid = FALSE, !.lists = {}, !.stale = FALSE]
       /\ last'.end_of_tick =>
             /\ \A i \in 1..Len(game_events') : ~objs'[game_events'[i]].invalid
             /\ \A i \in 1..Len(real_events') : ~real_events'[i].invalid
             /\ game_events' = ValidGame(last'.pre_game, objs')
             /\ real_events' = ValidReal(last'.pre_real)]_vars

\* a tick ended with a sweep that took an invalid event out of the game queue and
\* left a valid one in it
C10_Witness ==
    /\ last.end_of_tick
    /\ game_events # <<>>
    /\ Len(game_events) < Len(last.pre_game)

\* the intersections that existed before the most recent step: all but the ones its
\* handler created
Before == {j \in DOMAIN objs : j \notin SeqToSet(last.ret) /\ objs[j].cls = "Intersection"}

\* C5: once an intersection of A and B is resolved, every intersection predicted
\* before it that has A or B as a participant has its invalid flag set, whichever
\* entity's prediction created it
C5_ParticipantsInvalidated ==
    Resolved =>
        \A j \in Before :
            {objs[j].ent, objs[j].oth} \cap {objs[last.id].ent, objs[last.id].oth} # {}
            => objs[j].invalid

\* C6: when a dispatch step is over, every game event the handler returned is in the
\* game queue (no handler of the program returns a real event)
C6_ReturnedQueued ==
    (Dispatched /\ pc \in {"run", "frame"}) =>
        \A k \in 1..Len(last.ret) : last.ret[k] \in SeqToSet(game_events)

\* the projected real time of the queued game event id
Projected(id) == current_time + ZeroDivide(objs[id].time - game_time, _speed)

\* C7: when _calc_next_frame returns, no queue holds a valid event whose projected
\* real time is at or before _next_frame_time (a paused game projects its game events
\* to no finite time)
C7_FrameDrained ==
    last.end_of_tick =>
        /\ \A i \in 1..Len(real_events) :
              ~real_events[i].invalid => real_events[i].time > _next_frame_time
        /\ \A i \in 1..Len(game_events) :
              (~objs[game_events[i]].invalid /\ ~paused)
              => Projected(game_events[i]) > _next_frame_time

\* C9: a game event a handler schedules for the very game time of its dispatch is
\* not dispatched by that step and stays in the game queue for a later tick
C9_SameTimeStaysQueued ==
    (Dispatched /\ pc \in {"run", "frame"}) =>
        \A k \in 1..Len(last.ret) :
            objs[last.ret[k]].time = last.gt
            => /\ last.ret[k] \in SeqToSet(game_events)
               /\ last.ret[k] # last.id

\* ------------------------------------------------------------ the pause switch alone
\* the game as constructed, nothing scheduled, apart from its speed
Constructed ==
    /\ clock = 0
    /\ pc = "run"
    /\ current_time = 0
    /\ game_time = 0
    /\ _next_frame_time = 0
    /\ game_events = <<>>
    /\ real_events = <<>>
    /\ objs = <<>>
    /\ _CurrentState = [polled |-> FALSE, pressed |-> {}]
    /\ resting = [e \in Collidables |-> <<>>]
    /\ nkeys = 0
    /\ nhits = 0
    /\ budget = [keys |-> 0, hits |-> 0]
    /\ ever_paused = FALSE
    /\ dispatched_at = 0
    /\ last = NoLast

\* what is left alone when one operation is exercised
Scheduler ==
    <<clock, pc, current_time, game_time, _next_frame_time, game_events, real_events,
      _CurrentState, objs, resting, nkeys, nhits, budget, ever_paused, dispatched_at, last>>

\* the speeds a game is given before it is first paused
PauseSpeeds == 0..MaxSpeed

InitPause ==
    /\ Constructed
    /\ _speed \in PauseSpeeds
    /\ _real_speed = None
    /\ probe = [op |-> "pause", set |-> _speed, calls |-> <<>>, was_paused |-> FALSE]

\* one call of pause(), pause(True) or pause(False)
CallPause(arg) ==
    /\ probe.op = "pause"
    /\ Len(probe.calls) < MaxCalls
    /\ LET r == IF arg = "flip" THEN Pause(_speed, _real_speed)
                ELSE PauseTo(arg = "true", _speed, _real_speed)
       IN /\ _speed' = r[1]
          /\ _real_speed' = r[2]
    /\ probe' = [probe EXCEPT !.calls = Append(@, arg), !.was_paused = paused]
    /\ UNCHANGED Scheduler

PauseFlip == CallPause("flip")
PauseTrue == CallPause("true")
PauseFalse == CallPause("false")

NextPause == PauseFlip \/ PauseTrue \/ PauseFalse

SpecPause == InitPause /\ [][NextPause]_vars

\* C11: over any sequence of pause(), pause(True) and pause(False) with no write of
\* the speed, the effective speed is 0 while the game is paused and the speed set
\* before the first pause while it is not, and the speed property reports that stored
\* speed in both states, also after a pause of a paused game
C11_PauseAlgebra ==
    probe.op = "pause" =>
        /\ (paused => _speed = 0)
        /\ (~paused => _speed = probe.set)
        /\ speed = probe.set

\* a paused game with a positive stored speed was paused again
C11_Witness ==
    /\ probe.op = "pause"
    /\ probe.set > 0
    /\ probe.was_paused
    /\ paused
    /\ probe.calls # <<>>
    /\ probe.calls[Len(probe.calls)] = "true"

\* ---------------------------------------------------------------------------
\* Vectors, entities and the collision response, in exact arithmetic.
\*
\* A vector is a pair of integers on a grid. A unit normal is kept as its
\* numerators over NormalDen, a restitution coefficient as its numerator over
\* RestitutionDen; velocities and accelerations are drawn from multiples of
\* Grid, which makes every division below exact.

NormalDen == 5            \* a unit normal is n / NormalDen with |n| = NormalDen
RestitutionDen == 2       \* a restitution coefficient is e / RestitutionDen
Grid == NormalDen * NormalDen * RestitutionDen * RestitutionDen
EPSILON == 50             \* util.EPSILON on the grid: the values below it are 0, 20 and 40
RESTING_THRESHOLD == 200  \* ms
BigVel == 150             \* a normal speed of BigVel * Grid bounces for more than RESTING_THRESHOLD
MaxElapse == 2            \* ms of game time that pass before the operation exercised

Vector(x, y) == <<x, y>>
Vector_add(a, b) == <<a[1] + b[1], a[2] + b[2]>>
Vector_sub(a, b) == <<a[1] - b[1], a[2] - b[2]>>
Vector_neg(a) == <<-a[1], -a[2]>>
\* Vector.__mul__ with a scalar, with a vector (dot product)
Vector_scale(k, a) == <<k * a[1], k * a[2]>>
Vector_dot(a, b) == a[1] * b[1] + a[2] * b[2]
Vector_cross(a, b) == a[1] * b[2] - a[2] * b[1]
Vector_invert(a) == <<-a[2], a[1]>>
\* sqrt(x*x + y*y), for the vectors whose length is on the grid
Vector_length(a) == CHOOSE l \in 0..(Abs(a[1]) + Abs(a[2])) : l * l = Vector_dot(a, a)
\* the numerators over NormalDen of the unit vector parallel to a
Vector_normalized(a) ==
    <<(a[1] * NormalDen) \div Vector_length(a), (a[2] * NormalDen) \div Vector_length(a)>>

\* v * normal and k * normal for a unit normal n / NormalDen
Normal_dot(v, n) == Vector_dot(v, n) \div NormalDen
Normal_scale(k, n) == <<(k * n[1]) \div NormalDen, (k * n[2]) \div NormalDen>>

\* Vector.reflected: self - (2 * (normal * self)) * normal
reflected(v, n) == Vector_sub(v, Normal_scale(2 * Normal_dot(n, v), n))

\* Line.normal of a segment with direction d: perp(direction), normalized
Line_normal(d) == Vector_normalized(Vector_invert(d))

\* FloatEqual on the grid: below EPSILON the absolute test, above it the relative
\* test, whose tolerance EPSILON * largest is less than one grid step
FloatEqualGrid(a, b) ==
    LET largest == IF Abs(a) > Abs(b) THEN Abs(a) ELSE Abs(b)
    IN  IF largest < EPSILON THEN Abs(a - b) < EPSILON ELSE a = b

\* util.Position; the acceleration term is exact because accelerations are even
Position(position, velocity, acceleration, delta_time) ==
    Vector_add(Vector_add(position, Vector_scale(delta_time, velocity)),
               <<(acceleration[1] * delta_time * delta_time) \div 2,
                 (acceleration[2] * delta_time * delta_time) \div 2>>)

\* An entity: a Movable keeps base position and velocity valid at _valid_time;
\* a Collidable that is not Movable has a plain position and reads velocity and
\* acceleration as Vector().
Entity_acceleration(e) == IF e.mobile THEN e._acceleration ELSE Vector(0, 0)
Entity_position(e, gt) ==
    IF e.mobile
    THEN Position(e._position, e._velocity, Entity_acceleration(e), gt - e._valid_time)
    ELSE e._position
Entity_velocity(e, gt) ==
    IF e.mobile
    THEN Vector_add(e._velocity, Vector_scale(gt - e._valid_time, Entity_acceleration(e)))
    ELSE Vector(0, 0)

\* position setter; Shaped.position_update drops the cached positioned shape
set_position(e, gt, position) ==
    [e EXCEPT !._position = position, !._valid_time = gt, !.cached = FALSE]

\* velocity setter: self.position = self.position; self._velocity = velocity.
\* On a Collidable that is not Movable the assignment raises AttributeError.
set_velocity(e, gt, velocity) ==
    [set_position(e, gt, Entity_position(e, gt)) EXCEPT !._velocity = velocity]

\* acceleration setter: self._acceleration = acceleration
set_acceleration(e, gt, acceleration) == [e EXCEPT !._acceleration = acceleration]

NewEntity(mobile, position, velocity, acceleration, restitution) ==
    [mobile |-> mobile, _position |-> position, _velocity |-> velocity,
     _acceleration |-> acceleration, _valid_time |-> 0, restitution |-> restitution,
     cached |-> FALSE, cache_time |-> 0, cache |-> <<>>]

check_resting_state_case1(ent, oth, gt, normal, bounciness) ==
    Normal_dot(Vector_sub(Entity_acceleration(ent), Entity_acceleration(oth)), normal) < 0

\* a check_resting_state without case 1: resting only when the relative normal
\* velocity and acceleration are both zero
check_resting_state_still(ent, oth, gt, normal, bounciness) ==
    /\ FloatEqualGrid(Normal_dot(Vector_sub(Entity_acceleration(ent),
                                            Entity_acceleration(oth)), normal), 0)
    /\ FloatEqualGrid(Normal_dot(Vector_sub(Entity_velocity(ent, gt),
                                            Entity_velocity(oth, gt)), normal), 0)

\* check_resting_state; bounciness is a numerator over RestitutionDen^2
check_resting_state(ent, oth, gt, normal, bounciness) ==
    LET rel_vel == Vector_sub(Entity_velocity(ent, gt), Entity_velocity(oth, gt))
        rel_acc == Vector_sub(Entity_acceleration(ent), Entity_acceleration(oth))
        rel_vel_norm == Normal_dot(rel_vel, normal)
        rel_acc_norm == Normal_dot(rel_acc, normal)
        \* delta_bounce_time = num / den, compared with the threshold without dividing
        num == 2 * (rel_vel_norm * bounciness)
        den == RestitutionDen * RestitutionDen * rel_acc_norm
        below == IF den > 0 THEN num < RESTING_THRESHOLD * den
                 ELSE num > RESTING_THRESHOLD * den
        case_1_satisfied == IF rel_acc_norm # 0 THEN rel_acc_norm < 0 /\ below ELSE FALSE
        case_2_satisfied == FloatEqualGrid(rel_acc_norm, 0) /\ FloatEqualGrid(rel_vel_norm, 0)
    IN  case_1_satisfied \/ case_2_satisfied

\* Intersection.normal at the time of impact: the line's normal, negated when
\* the relative velocity points along it
Intersection_normal(ent, oth, gt, d) ==
    LET n == Line_normal(d)
        rel_vel == Vector_sub(Entity_velocity(ent, gt), Entity_velocity(oth, gt))
    IN  IF Normal_dot(rel_vel, n) > 0 THEN Vector_neg(n) ELSE n

Restitution_scale(v, e_ent, e_oth) ==
    <<(v[1] * e_ent * e_oth) \div (RestitutionDen * RestitutionDen),
      (v[2] * e_ent * e_oth) \div (RestitutionDen * RestitutionDen)>>

_resolve_entity_own(x, gt, d, e_ent, e_oth) ==
    IF x.mobile
    THEN set_velocity(x, gt, Restitution_scale(reflected(Entity_velocity(x, gt), Line_normal(d)),
                                                 x.restitution, x.restitution))
    ELSE x

\* Intersection._resolve_entity, for a line of direction d
_resolve_entity(x, gt, d, e_ent, e_oth) ==
    IF x.mobile
    THEN set_velocity(x, gt, Restitution_scale(reflected(Entity_velocity(x, gt), Line_normal(d)),
                                                 e_ent, e_oth))
    ELSE x

\* a resting branch in which the mover takes the velocity and the acceleration of
\* the other participant
enter_resting_stuck(ent, oth, gt, normal) ==
    LET swap == ~ent.mobile
        mv == IF swap THEN oth ELSE ent
        ot == IF swap THEN ent ELSE oth
        v2 == set_acceleration(set_velocity(mv, gt, Entity_velocity(ot, gt)), gt,
                               Entity_acceleration(ot))
    IN  IF swap THEN [ent |-> ot, oth |-> v2] ELSE [ent |-> v2, oth |-> ot]

\* the resting branch of Intersection.__call__: the mover loses the relative
\* normal velocity and acceleration
enter_resting(ent, oth, gt, normal) ==
    LET swap == ~ent.mobile
        mv == IF swap THEN oth ELSE ent
        ot == IF swap THEN ent ELSE oth
        oth_vel == Normal_dot(Entity_velocity(ot, gt), normal)
        ent_vel == Normal_dot(Entity_velocity(mv, gt), normal)
        v1 == set_velocity(mv, gt, Vector_add(Entity_velocity(mv, gt),
                                              Normal_scale(oth_vel - ent_vel, normal)))
        oth_acc == Normal_dot(Entity_acceleration(ot), normal)
        ent_acc == Normal_dot(Entity_acceleration(v1), normal)
        v2 == set_acceleration(v1, gt, Vector_add(Entity_acceleration(v1),
                                                  Normal_scale(oth_acc - ent_acc, normal)))
    IN  IF swap THEN [ent |-> ot, oth |-> v2] ELSE [ent |-> v2, oth |-> ot]

\* the collision response of Intersection.__call__ for a collision that is
\* neither stale nor skipped
Respond(ent, oth, gt, d) ==
    LET normal == Intersection_normal(ent, oth, gt, d)
    IN  IF check_resting_state(ent, oth, gt, normal, ent.restitution * oth.restitution)
        THEN [how |-> "resting", normal |-> normal] @@ enter_resting(ent, oth, gt, normal)
        ELSE [how |-> "reflected", normal |-> normal,
              ent |-> _resolve_entity(ent, gt, d, ent.restitution, oth.restitution),
              oth |-> _resolve_entity(oth, gt, d, ent.restitution, oth.restitution)]

Idle == <<clock, pc, current_time, _next_frame_time, _speed, _real_speed, game_events,
          real_events, _CurrentState, objs, resting, nkeys, nhits, budget, ever_paused,
          dispatched_at, last>>

VelComps == {0, -Grid, Grid, -BigVel * Grid}
Velocities == {Vector(x, y) : x \in {0, Grid}, y \in VelComps} \cup {Vector(-Grid, 0)}
Accelerations == {Vector(0, 0), Vector(0, -Grid), Vector(0, Grid)}
Directions == {Vector(5, 0), Vector(0, 5), Vector(4, -3), Vector(-3, -4)}
Restitutions == 0..RestitutionDen
Others ==
    {NewEntity(FALSE, Vector(0, 0), Vector(0, 0), Vector(0, 0), e) : e \in {1, 2}}
    \cup {NewEntity(TRUE, Vector(0, 0), Vector(0, Grid), Vector(0, 0), 2)}

InitCollide ==
    /\ Constructed
    /\ _speed = 1
    /\ _real_speed = None
    /\ \E v \in Velocities, a \in Accelerations, d \in Directions, e \in Restitutions,
          o \in Others :
          probe = [op |-> "collide", how |-> "none", d |-> d, normal |-> Vector(0, 0),
                   ent |-> NewEntity(TRUE, Vector(0, 0), v, a, e), oth |-> o,
                   pre_ent |-> NewEntity(TRUE, Vector(0, 0), v, a, e), pre_oth |-> o]

\* game time passes before the impact
Elapse ==
    /\ probe.op # "none"
    /\ probe.op = "collide" => probe.how = "none"
    /\ game_time < MaxElapse
    /\ game_time' = game_time + 1
    /\ UNCHANGED <<probe, Idle>>

Collide ==
    /\ probe.op = "collide"
    /\ probe.how = "none"
    /\ LET r == Respond(probe.ent, probe.oth, game_time, probe.d)
       IN  probe' = [probe EXCEPT !.how = r.how, !.normal = r.normal, !.ent = r.ent,
                                  !.oth = r.oth]
    /\ UNCHANGED <<game_time, Idle>>

NextCollide == Elapse \/ Collide

SpecCollide == InitCollide /\ [][NextCollide]_vars

\* ---------------------------------------------------------------------------
\* Claims about the collision response

Reflected == probe.op = "collide" /\ probe.how = "reflected"

\* C12: when a collision is resolved by reflection, the velocity of each mobile
\* participant becomes its velocity at the impact reflected about the impact
\* normal, v - 2(n.v)n, times the product of the two restitution coefficients;
\* a participant that is not mobile is left as it was.
C12_Reflection ==
    Reflected =>
        \A side \in {"ent", "oth"} :
            LET old == IF side = "ent" THEN probe.pre_ent ELSE probe.pre_oth
                new == IF side = "ent" THEN probe.ent ELSE probe.oth
                n == probe.normal
                v == Entity_velocity(old, game_time)
                w == Entity_velocity(new, game_time)
                e == probe.pre_ent.restitution * probe.pre_oth.restitution
                D == NormalDen * NormalDen
            IN  IF old.mobile
                THEN \A i \in 1..2 :
                        w[i] * D * RestitutionDen * RestitutionDen
                            = (v[i] * D - 2 * Vector_dot(n, v) * n[i]) * e
                ELSE new = old

C12_Witness ==
    /\ Reflected
    /\ ~probe.pre_oth.mobile
    /\ probe.normal[1] # 0 /\ probe.normal[2] # 0
    /\ probe.pre_ent.restitution * probe.pre_oth.restitution = 2
    /\ game_time > 0
    /\ probe.pre_ent._acceleration # Vector(0, 0)
    /\ Entity_velocity(probe.ent, game_time)[1] # Entity_velocity(probe.pre_ent, game_time)[1]
    /\ Entity_velocity(probe.ent, game_time)[2] # Entity_velocity(probe.pre_ent, game_time)[2]

\* NormalDen times the normal component of the relative velocity and of the
\* relative acceleration at the impact
RelVelNormal ==
    Vector_dot(Vector_sub(Entity_velocity(probe.pre_ent, game_time),
                          Entity_velocity(probe.pre_oth, game_time)), probe.normal)
RelAccNormal ==
    Vector_dot(Vector_sub(Entity_acceleration(probe.pre_ent),
                          Entity_acceleration(probe.pre_oth)), probe.normal)

\* C13: a collision enters resting contact exactly when the relative acceleration
\* along the impact normal is negative and the next bounce, 2|v_n|e/|a_n| later,
\* would come sooner than 200 ms, or when |v_n| and |a_n| are both below epsilon;
\* every other collision is reflected.
C13_RestingIff ==
    (probe.op = "collide" /\ probe.how # "none") =>
        LET e == probe.pre_ent.restitution * probe.pre_oth.restitution
            case_1 == /\ RelAccNormal < 0
                      /\ 2 * Abs(RelVelNormal) * e
                            < 200 * RestitutionDen * RestitutionDen * Abs(RelAccNormal)
            case_2 == /\ Abs(RelVelNormal) < EPSILON * NormalDen
                      /\ Abs(RelAccNormal) < EPSILON * NormalDen
        IN  /\ probe.how = "resting" <=> (case_1 \/ case_2)
            /\ probe.how \in {"resting", "reflected"}

C13_Witness ==
    /\ probe.op = "collide"
    /\ probe.how = "resting"
    /\ RelAccNormal < 0
    /\ Abs(RelVelNormal) >= BigVel * Grid
    /\ probe.normal[1] # 0 /\ probe.normal[2] # 0

\* ---------------------------------------------------------------------------
\* The end of a resting contact.
\*
\* The game starts from the state an intersection that entered resting contact
\* aims at: the contact recorded with both participants and the StopResting
\* event it returned in the game queue, ahead of the intersections predicted at
\* level load.

RestingContact(p) == [ent |-> p[1], oth |-> p[2], point_index |-> 0, line_index |-> 0]

InitStop ==
    /\ clock = 0
    /\ pc = "run"
    /\ current_time = 0
    /\ game_time = 0
    /\ _next_frame_time = 0
    /\ _speed \in 1..MaxSpeed
    /\ _real_speed = None
    /\ \E q \in InitQueues, p \in InitPairs :
        /\ objs = <<NewObj("StopResting", p[1], p[2], 0, 0, {})>> \o q
        /\ game_events = [i \in 1..Len(q) + 1 |-> i]
        /\ resting = [e \in Collidables |->
                        IF e \in {p[1], p[2]} THEN <<RestingContact(p)>> ELSE <<>>]
    /\ real_events = <<>>
    /\ _CurrentState = [polled |-> FALSE, pressed |-> {}]
    /\ nkeys = 0
    /\ nhits = 0
    /\ budget = [keys |-> MaxHitKeys, hits |-> MaxHits]
    /\ ever_paused = FALSE
    /\ dispatched_at = 0
    /\ last = NoLast
    /\ probe = NoProbe

SpecStop == InitStop /\ [][Next]_vars

\* the contact of resting event s is recorded with entity e
Recorded(s, e) ==
    \E k \in 1..Len(resting[e]) :
        /\ resting[e][k].ent = s.ent /\ resting[e][k].oth = s.oth
        /\ resting[e][k].point_index = s.point_index
        /\ resting[e][k].line_index = s.line_index

SetVectors == {Vector(0, 0), Vector(0, -2), Vector(2, 4)}

InitSet ==
    /\ Constructed
    /\ _speed = 1
    /\ _real_speed = None
    /\ \E p, v, a \in SetVectors :
          probe = [op |-> "set", ent |-> NewEntity(TRUE, p, v, a, RestitutionDen),
                   calls |-> 0, setter |-> "none", value |-> Vector(0, 0), at |-> 0,
                   position |-> p, velocity |-> v, acceleration |-> a]

\* one call of a setter at the current game time; position, velocity and
\* acceleration record what the getters returned just before it
CallSetter(setter, value, e) ==
    /\ probe.op = "set"
    /\ probe.calls < MaxCalls
    /\ probe' = [probe EXCEPT !.ent = e, !.calls = @ + 1, !.setter = setter,
                              !.value = value, !.at = game_time,
                              !.position = Entity_position(probe.ent, game_time),
                              !.velocity = Entity_velocity(probe.ent, game_time),
                              !.acceleration = Entity_acceleration(probe.ent)]
    /\ UNCHANGED <<game_time, Idle>>

SetPosition ==
    \E p \in SetVectors : CallSetter("position", p, set_position(probe.ent, game_time, p))
SetVelocity ==
    \E v \in SetVectors : CallSetter("velocity", v, set_velocity(probe.ent, game_time, v))
SetAcceleration ==
    \E a \in SetVectors :
        CallSetter("acceleration", a, set_acceleration(probe.ent, game_time, a))

NextSet == Elapse \/ SetPosition \/ SetVelocity \/ SetAcceleration

SpecSet == InitSet /\ [][NextSet]_vars

\* C15: right after a setter of a Movable was called, the quantity written reads
\* back as written and the two others read, at that game time, what they read
\* just before the call.
C15_SettersPreserve ==
    (probe.op = "set" /\ probe.setter # "none") =>
        LET position == Entity_position(probe.ent, probe.at)
            velocity == Entity_velocity(probe.ent, probe.at)
            acceleration == Entity_acceleration(probe.ent)
        IN  /\ position = IF probe.setter = "position" THEN probe.value ELSE probe.position
            /\ velocity = IF probe.setter = "velocity" THEN probe.value ELSE probe.velocity
            /\ acceleration = IF probe.setter = "acceleration" THEN probe.value
                              ELSE probe.acceleration

\* ---------------------------------------------------------------------------
\* The positioned shape of an entity.

\* Shape.offset: the loop "for point in self.points: point += offset" binds its
\* variable to a new Vector each time (Vector is immutable and += is __add__);
\* the list self.points keeps the points it had
Shape_offset(points, offset) == [i \in 1..Len(points) |-> points[i]]

\* Shape(shape): a copy, point by point
Shape_copy(points) == [i \in 1..Len(points) |-> Vector(points[i][1], points[i][2])]

\* Shaped.pos_shape of entity e with local shape points at game time gt: the
\* entity with its cache, and the shape returned
pos_shape(e, points, gt) ==
    IF e.cached /\ gt = e.cache_time
    THEN [ent |-> e, shape |-> e.cache]
    ELSE LET s == Shape_offset(Shape_copy(points), Entity_position(e, gt))
         IN  [ent |-> [e EXCEPT !.cached = TRUE, !.cache = s, !.cache_time = gt],
              shape |-> s]

Shapes == {<<Vector(0, 0), Vector(2, 0), Vector(0, 2)>>, <<Vector(-1, 1), Vector(3, 1)>>}

InitShape ==
    /\ Constructed
    /\ _speed = 1
    /\ _real_speed = None
    /\ \E p, v, a \in SetVectors, s \in Shapes :
          probe = [op |-> "shape", ent |-> NewEntity(TRUE, p, v, a, RestitutionDen),
                   shape |-> s, reads |-> 0, returned |-> <<>>, at |-> 0, from_cache |-> FALSE,
                   local |-> s]

\* ent.pos_shape is read; local is the local shape as it was before the read
ReadPosShape ==
    /\ probe.op = "shape"
    /\ probe.reads < MaxCalls
    /\ LET r == pos_shape(probe.ent, probe.shape, game_time)
       IN  probe' = [probe EXCEPT !.ent = r.ent, !.returned = r.shape, !.at = game_time,
                                  !.reads = @ + 1, !.local = probe.shape,
                                  !.from_cache = probe.ent.cached
                                                 /\ game_time = probe.ent.cache_time]
    /\ UNCHANGED <<game_time, Idle>>

\* the entity is moved: ent.position = p
MoveShape ==
    /\ probe.op = "shape"
    /\ probe.returned # <<>>
    /\ \E p \in SetVectors :
          /\ p # Entity_position(probe.ent, game_time)
          /\ probe' = [probe EXCEPT !.ent = set_position(probe.ent, game_time, p),
                                    !.returned = <<>>]
    /\ UNCHANGED <<game_time, Idle>>

NextShape == Elapse \/ ReadPosShape \/ MoveShape

SpecShape == InitShape /\ [][NextShape]_vars

\* C16: point i of the positioned shape an entity returns is point i of its
\* local shape plus the entity's position at that game time, whether the shape
\* was built or taken from the cache; the local shape is what it was.
C16_PosShape ==
    (probe.op = "shape" /\ probe.returned # <<>>) =>
        /\ Len(probe.returned) = Len(probe.local)
        /\ \A i \in 1..Len(probe.returned) :
              probe.returned[i]
                  = Vector_add(probe.local[i], Entity_position(probe.ent, probe.at))
        /\ probe.shape = probe.local

\* ---------------------------------------------------------------------------
\* The tick loop on a time grid finer than EPSILON.
\*
\* Game times are integers on a grid on which util.EPSILON is EPSILON steps, real
\* times are in 1/Den of a step.  The predictor is asked at level load for the
\* roots of one point and one segment; what its filter lets through is queued,
\* and the loop of _calc_next_frame works the queue off frame by frame.  No key
\* is touched, so the real queue stays empty.

MaxLoads == 2            \* level loads (Level.__init__, reset) over a run

\* the roots find_roots may return: before, at and after the present time
FineRoots == {-2 * EPSILON, -EPSILON, -20, 0, 20, 3 * EPSILON}
FineFrame == 2 * EPSILON

\* physics.Intersection.__init__ without del_time: del_time = time; time += game_time
FineIntersection(root, gt) == [time |-> root + gt, del_time |-> root, at |-> gt]

\* physics._parabola_line_collision_wrapper over the roots of one point and segment
_parabola_line_collision_wrapper(roots, gt) ==
    {i \in {FineIntersection(r, gt) : r \in roots} : i.del_time > -EPSILON}

\* the sequences that hold the events of S in the order of their times
SortedQueues(S) ==
    {q \in [1..Cardinality(S) -> S] : SeqToSet(q) = S /\ Sorted(q)}

NoStep == [kind |-> "idle", ct |-> 0, gt |-> 0, del_time |-> 0]

InitFine ==
    /\ Constructed
    /\ _speed \in 1..MaxSpeed
    /\ _real_speed = None
    /\ probe = [op |-> "fine", queue |-> <<>>, loads |-> 0, frames |-> 0,
                raised |-> FALSE, step |-> NoStep]

FineRest == <<clock, pc, _speed, _real_speed, game_events, real_events, _CurrentState,
              objs, resting, nkeys, nhits, budget, ever_paused, dispatched_at, last>>

\* a level is loaded between two frames: its intersections are predicted and queued
FineLoad ==
    /\ probe.op = "fine"
    /\ ~probe.raised
    /\ ~(current_time < _next_frame_time)
    /\ probe.queue = <<>>
    /\ probe.loads < MaxLoads
    /\ \E roots \in SUBSET FineRoots :
          /\ Cardinality(roots) \in 1..2
          /\ \E q \in SortedQueues(_parabola_line_collision_wrapper(roots, game_time)) :
                probe' = [probe EXCEPT !.queue = q, !.loads = @ + 1, !.step = NoStep]
    /\ UNCHANGED <<current_time, game_time, _next_frame_time, FineRest>>

\* _Game.run: the next frame is due
FineFrameDue ==
    /\ probe.op = "fine"
    /\ ~probe.raised
    /\ ~(current_time < _next_frame_time)
    /\ probe.frames < MaxCalls
    /\ _next_frame_time' = _next_frame_time + FineFrame * Den
    /\ probe' = [probe EXCEPT !.frames = @ + 1, !.step = NoStep]
    /\ UNCHANGED <<current_time, game_time, FineRest>>

\* one pass of the loop of _calc_next_frame with an empty real queue: the
\* exception of _next_event, the head game event, or the rest of the frame
FineStep ==
    /\ probe.op = "fine"
    /\ ~probe.raised
    /\ current_time < _next_frame_time
    /\ LET frame_delta == _next_frame_time - current_time
           head == Head(probe.queue)
           before == [NoStep EXCEPT !.ct = current_time, !.gt = game_time]
           due == /\ probe.queue # <<>>
                  /\ ~(ZeroDivide(Abs(head.time - game_time) * Den, _speed) > frame_delta)
           delta_time == ((head.time - game_time) * Den) \div _speed
       IN  IF probe.queue # <<>> /\ head.time < game_time - EPSILON
           THEN /\ probe' = [probe EXCEPT !.raised = TRUE, !.step = [before EXCEPT !.kind = "raise"]]
                /\ UNCHANGED <<current_time, game_time>>
           ELSE IF due
           THEN /\ game_time' = game_time + (delta_time * _speed) \div Den
                /\ current_time' = current_time + delta_time
                /\ probe' = [probe EXCEPT !.queue = Tail(@),
                                          !.step = [before EXCEPT !.kind = "game",
                                                                  !.del_time = head.del_time]]
           ELSE /\ game_time' = game_time + (frame_delta * _speed) \div Den
                /\ current_time' = _next_frame_time
                /\ probe' = [probe EXCEPT !.step = [before EXCEPT !.kind = "none"]]
    /\ UNCHANGED <<_next_frame_time, FineRest>>

NextFine == FineLoad \/ FineFrameDue \/ FineStep

SpecFine == InitFine /\ [][NextFine]_vars

\* What the program keeps of C17: every event in the game queue was, when it was
\* scheduled, due later than EPSILON before that game time, and the exception
\* "Event must occur at a future time" is never raised.
\* In a run of the game on the millisecond grid, where EPSILON is less than a
\* step: every queued event is due now or later, and nothing is raised.
WithinTolerance ==
    /\ probe.op = "fine" =>
        /\ \A k \in 1..Len(probe.queue) : probe.queue[k].time > probe.queue[k].at - EPSILON
        /\ ~probe.raised
        /\ probe.step.kind # "raise"
    /\ probe.op = "none" =>
        /\ \A k \in 1..Len(real_events) : real_events[k].time >= current_time
        /\ \A k \in 1..Len(game_events) : objs[game_events[k]].time >= game_time
        /\ last.kind # "raise"

\* C17: every event in the game queue was, when it was scheduled, due at that
\* game time or later (event.time >= game_time).
C17_NonNegative ==
    probe.op = "fine" =>
        \A k \in 1..Len(probe.queue) : probe.queue[k].time >= probe.queue[k].at

\* C18: in every pass of the tick loop neither current_time nor game_time
\* decreases, and current_time does not exceed _next_frame_time.
C18_TimeMonotone ==
    (probe.op = "fine" /\ probe.step.kind \in {"game", "none"}) =>
        /\ current_time >= probe.step.ct
        /\ game_time >= probe.step.gt
        /\ current_time <= _next_frame_time

\* ---------------------------------------------------------------------------
\* The pairwise predictor, on a grid of positions and times coarser than EPSILON:
\* FloatEqual is equality there.  The inputs are those whose roots lie on the grid.

Line(p, q) == <<p, q>>

\* Shape.lines: the lines that connect adjacent points, and the last point to the
\* first when the shape is enclosed
Shape_lines(points, enclosed) ==
    (IF enclosed THEN <<Line(points[Len(points)], points[1])>> ELSE <<>>)
    \o [k \in 1..Len(points) - 1 |-> Line(points[k], points[k + 1])]

Within(a, b, c) ==
    (a <= b /\ b <= c) \/ (c <= b /\ b <= a) \/ FloatEqual(a, b) \/ FloatEqual(b, c)

Collinear(p, q, r) == FloatEqual(Vector_cross(Vector_sub(q, p), Vector_sub(r, p)), 0)

SegmentContainsPoint(a, b, c) ==
    /\ Collinear(a, b, c)
    /\ IF ~FloatEqual(a[1], b[1]) THEN Within(a[1], c[1], b[1]) ELSE Within(a[2], c[2], b[2])

\* n / d is on the grid
Exact(n, d) == d # 0 /\ (n \div d) * d = n
IsSquare(n) == n >= 0 /\ \E s \in 0..n : s * s = n
Sqrt(n) == CHOOSE s \in 0..n : s * s = n

\* find_roots(a, b, c) with a = a2 / 2: the exception raised, if any, and the
\* sequence of roots returned
find_roots(a2, b, c) ==
    LET discriminant == IF c # 0 THEN b * b - 2 * a2 * c ELSE Abs(b)
        \* math.copysign(math.sqrt(discriminant), b)
        root == IF b < 0 THEN -Sqrt(discriminant) ELSE Sqrt(discriminant)
        x1 == (-b - root) \div a2
        Roots(r) == [raise |-> "none", roots |-> r]
    IN  IF a2 = 0
        THEN IF b = 0
             THEN [raise |-> IF c = 0 THEN "EquationIdentity" ELSE "InequalityError",
                   roots |-> <<>>]
             ELSE Roots(<<(-c) \div b>>)
        ELSE IF c = 0 /\ b = 0 THEN Roots(<<0>>)
        ELSE IF discriminant < 0 THEN Roots(<<>>)
        ELSE IF c # 0
        THEN IF discriminant = 0 THEN Roots(<<(-b) \div a2>>)
             ELSE Roots(<<x1, (2 * c) \div (a2 * x1)>>)
        ELSE Roots(<<(-2 * b) \div a2, 0>>)

\* every division and square root find_roots takes for these coefficients is exact
OnGrid(a2, b, c) ==
    LET discriminant == b * b - 2 * a2 * c
        root == IF b < 0 THEN -Sqrt(discriminant) ELSE Sqrt(discriminant)
    IN  IF a2 = 0 THEN (b = 0 \/ Exact(-c, b))
        ELSE IF c = 0 THEN Exact(-2 * b, a2)
        ELSE IF discriminant < 0 THEN TRUE
        ELSE /\ IsSquare(discriminant)
             /\ Exact(-b - root, a2)
             /\ discriminant # 0 => /\ (-b - root) # 0
                                    /\ Exact(2 * c, a2 * ((-b - root) \div a2))

\* the coefficients ParabolaLineCollision gives find_roots, a doubled
Coefficients(pos, velocity, acceleration, line) ==
    LET p == line[1]
        q == line[2]
    IN  [a2 |-> Vector_cross(acceleration, q) - Vector_cross(acceleration, p),
         b |-> Vector_cross(velocity, q) - Vector_cross(velocity, p),
         c |-> Vector_cross(pos, q) - Vector_cross(pos, p) - Vector_cross(p, q)]

\* a ParabolaLineCollision that keeps only the roots that are not in the past
ParabolaLineCollision_future(pos, velocity, acceleration, line) ==
    LET k == Coefficients(pos, velocity, acceleration, line)
        r == find_roots(k.a2, k.b, k.c)
        NotPast(t) == t >= 0
    IN  IF acceleration = Vector(0, 0)
        THEN IF velocity = Vector(0, 0) THEN <<>>
             ELSE IF k.b = 0 THEN <<>> ELSE SelectSeq(<<(-k.c) \div k.b>>, NotPast)
        ELSE IF r.raise = "InequalityError" THEN <<>>
        ELSE IF r.raise = "EquationIdentity" THEN <<0>>
        ELSE SelectSeq(r.roots, NotPast)

\* ParabolaLineCollision: the roots for the point pos moving with velocity and
\* acceleration relative to the line
ParabolaLineCollision(pos, velocity, acceleration, line) ==
    LET k == Coefficients(pos, velocity, acceleration, line)
        r == find_roots(k.a2, k.b, k.c)
    IN  IF acceleration = Vector(0, 0)
        THEN IF velocity = Vector(0, 0) THEN <<>>
             ELSE IF k.b = 0 THEN <<>> ELSE <<(-k.c) \div k.b>>
        ELSE IF r.raise = "InequalityError" THEN <<>>
        ELSE IF r.raise = "EquationIdentity" THEN <<0>>
        ELSE r.roots

\* the points of the positioned shape of e at game time gt, read without the cache
PosPoints(e, points, gt) == pos_shape([e EXCEPT !.cached = FALSE], points, gt).shape

\* Intersection.pos of the intersection of point point_index of x with a line of
\* y, del_time after the prediction at game time gt
Intersection_pos(x, y, gt, point_index, del_time) ==
    Position(PosPoints(x.ent, x.shape, gt)[point_index],
             Vector_sub(Entity_velocity(x.ent, gt), Entity_velocity(y.ent, gt)),
             Vector_sub(Entity_acceleration(x.ent), Entity_acceleration(y.ent)), del_time)

\* _parabola_line_collision_wrapper over ParabolaLineSegmentCollision for one
\* point of x (owner names it) and one line of y: the intersections whose position
\* is in the line and whose del_time is not in the past
PointLineIntersections(owner, x, y, gt, point_index, line_index) ==
    LET pos == PosPoints(x.ent, x.shape, gt)[point_index]
        line == Shape_lines(PosPoints(y.ent, y.shape, gt), y.enclosed)[line_index]
        vel == Vector_sub(Entity_velocity(x.ent, gt), Entity_velocity(y.ent, gt))
        acc == Vector_sub(Entity_acceleration(x.ent), Entity_acceleration(y.ent))
        roots == ParabolaLineCollision(pos, vel, acc, line)
    IN  {[owner |-> owner, point_index |-> point_index, line_index |-> line_index,
          del_time |-> roots[k], time |-> roots[k] + gt] :
            k \in {j \in 1..Len(roots) :
                     /\ SegmentContainsPoint(line[1], line[2],
                                             Intersection_pos(x, y, gt, point_index, roots[j]))
                     \* del_time > -util.EPSILON, which is less than a step
                     /\ roots[j] >= 0}}

\* physics.entity_intersections(provider, ent, oth) for the shaped entities A and
\* B: the points of A against the lines of B, and the points of B against the
\* lines of A
pair_intersections(A, B, gt) ==
    UNION {PointLineIntersections("ent", A, B, gt, pi, li) :
              pi \in 1..Len(A.shape), li \in 1..Len(Shape_lines(B.shape, B.enclosed))}
    \cup UNION {PointLineIntersections("oth", B, A, gt, pi, li) :
              pi \in 1..Len(B.shape), li \in 1..Len(Shape_lines(A.shape, A.enclosed))}

\* the coefficients of every point and line of the pair are on the grid
PairOnGrid(A, B, gt) ==
    \A d \in {<<A, B>>, <<B, A>>} :
        \A pi \in 1..Len(d[1].shape), li \in 1..Len(Shape_lines(d[2].shape, d[2].enclosed)) :
            LET k == Coefficients(
                        PosPoints(d[1].ent, d[1].shape, gt)[pi],
                        Vector_sub(Entity_velocity(d[1].ent, gt), Entity_velocity(d[2].ent, gt)),
                        Vector_sub(Entity_acceleration(d[1].ent), Entity_acceleration(d[2].ent)),
                        Shape_lines(PosPoints(d[2].ent, d[2].shape, gt), d[2].enclosed)[li])
            IN  OnGrid(k.a2, k.b, k.c)

PredictPositions == {Vector(0, 0), Vector(0, 4), Vector(2, 0)}
PredictVelocities == {Vector(0, 0), Vector(0, -2), Vector(2, -2), Vector(0, 2)}
PredictAccelerations == {Vector(0, 0), Vector(0, -2)}
\* a body of two points above a floor
BodyShape == <<Vector(0, 4), Vector(2, 4)>>
FloorShape == <<Vector(-4, 0), Vector(8, 0)>>

InitPredict ==
    /\ Constructed
    /\ _speed = 1
    /\ _real_speed = None
    /\ \E p, pf \in PredictPositions, v \in PredictVelocities, a \in PredictAccelerations,
          mobile \in BOOLEAN :
          probe = [op |-> "predict", found |-> {}, at |-> 0, predicted |-> FALSE,
                   A |-> [ent |-> NewEntity(TRUE, p, v, a, RestitutionDen),
                          shape |-> BodyShape, enclosed |-> TRUE],
                   B |-> [ent |-> NewEntity(mobile, pf, Vector(0, 0), Vector(0, 0),
                                             RestitutionDen),
                          shape |-> FloorShape, enclosed |-> FALSE]]

\* entity_intersections(provider, A, B) is called at the current game time
Predict ==
    /\ probe.op = "predict"
    /\ ~probe.predicted
    /\ PairOnGrid(probe.A, probe.B, game_time)
    /\ probe' = [probe EXCEPT !.found = pair_intersections(probe.A, probe.B, game_time),
                              !.at = game_time, !.predicted = TRUE]
    /\ UNCHANGED <<game_time, Idle>>

\* game time passes up to the next impact predicted
Impact ==
    /\ probe.op = "predict"
    /\ probe.predicted
    /\ \E i \in probe.found :
          /\ i.time > game_time
          /\ \A j \in probe.found : j.time > game_time => i.time <= j.time
          /\ game_time' = i.time
    /\ UNCHANGED <<probe, Idle>>

NextPredict == Elapse \/ Predict \/ Impact

SpecPredict == InitPredict /\ [][NextPredict]_vars

\* C19: at the impact time of an intersection the predictor returned for a pair,
\* its point, taken from the positioned shape of the one entity, is in its
\* segment, taken from the positioned shape of the other.
C19_PointOnSegment ==
    (probe.op = "predict" /\ probe.predicted) =>
        \A i \in probe.found :
            i.time = game_time =>
                LET x == IF i.owner = "ent" THEN probe.A ELSE probe.B
                    y == IF i.owner = "ent" THEN probe.B ELSE probe.A
                    point == PosPoints(x.ent, x.shape, game_time)[i.point_index]
                    line == Shape_lines(PosPoints(y.ent, y.shape, game_time),
                                        y.enclosed)[i.line_index]
                IN  SegmentContainsPoint(line[1], line[2], point)

\* ---------------------------------------------------------------------------
\* The input adapter, polled at real times that increase.

InitPoll ==
    /\ Constructed
    /\ _speed = 1
    /\ _real_speed = None
    /\ probe = [op |-> "poll", polls |-> 0, was |-> {}, now |-> {}, events |-> <<>>, t |-> 0]

PollRest == <<pc, current_time, game_time, _next_frame_time, _speed, _real_speed,
              game_events, real_events, objs, resting, nkeys, nhits, budget, ever_paused,
              dispatched_at, last>>

\* check_for_new_events(current_time, provider) is called while the keys of now
\* are down; was is the set of keys down at the poll before, none before the first
Poll ==
    /\ probe.op = "poll"
    /\ probe.polls < MaxCalls
    /\ \E d \in 1..MaxDelay, now \in SUBSET KeySet :
          /\ clock' = clock + d
          /\ probe' = [probe EXCEPT !.polls = @ + 1, !.was = _CurrentState.pressed,
                                    !.now = now, !.t = (clock + d) * Den,
                                    !.events = check_for_new_events((clock + d) * Den, now)]
          /\ _CurrentState' = [polled |-> TRUE, pressed |-> now]
    /\ UNCHANGED PollRest

NextPoll == Poll

SpecPoll == InitPoll /\ [][NextPoll]_vars

\* the number of events of the last poll for key k, presses or releases
Emitted(k, press) ==
    Cardinality({i \in 1..Len(probe.events) :
                    probe.events[i].key = k /\ probe.events[i].press = press})

\* what the polls after the first keep of C20
LaterPolls ==
    (probe.op = "poll" /\ probe.polls >= 2) =>
        /\ \A k \in KeySet :
              /\ Emitted(k, TRUE) = IF k \in probe.now /\ k \notin probe.was THEN 1 ELSE 0
              /\ Emitted(k, FALSE) = IF k \in probe.was /\ k \notin probe.now THEN 1 ELSE 0
        /\ \A i \in 1..Len(probe.events) : probe.events[i].time = probe.t
        /\ _CurrentState.pressed = probe.now

\* C20: a poll emits for every key exactly one KeyPress if the key is down now and
\* was not down at the poll before, exactly one KeyRelease if it was down and is
\* not down now, and nothing otherwise; every event carries the real time of the
\* poll, and the snapshot stored afterwards is the polled state.
C20_OneEventPerTransition ==
    (probe.op = "poll" /\ probe.polls >= 1) =>
        /\ \A k \in KeySet :
              /\ Emitted(k, TRUE) = IF k \in probe.now /\ k \notin probe.was THEN 1 ELSE 0
              /\ Emitted(k, FALSE) = IF k \in probe.was /\ k \notin probe.now THEN 1 ELSE 0
        /\ \A i \in 1..Len(probe.events) : probe.events[i].time = probe.t
        /\ _CurrentState.pressed = probe.now

\* ---------------------------------------------------------------------------
\* The reset action, called at any game time on a player that has moved.

\* Level._PlayerPosition, Level._PlayerVelocity
_PlayerPosition == Vector(10, 20)
_PlayerVelocity == Vector(0, 0)

\* a reset that moves the player and leaves its velocity
reset_player_position(e, O, gt, ch) ==
    [ent |-> set_position(e, gt, _PlayerPosition),
     objs |-> Retarget(O, gt, ch).objs, ret |-> Retarget(O, gt, ch).ret]

\* controls.reset_player: the player entity e and the event objects O afterwards,
\* and the ids of the game events returned; ch is what the predictor finds
reset_player(e, O, gt, ch) ==
    [ent |-> set_velocity(set_position(e, gt, _PlayerPosition), gt, _PlayerVelocity),
     objs |-> Retarget(O, gt, ch).objs, ret |-> Retarget(O, gt, ch).ret]

\* what an earlier resolution of another entity has predicted against the player:
\* find_intersections(b1, exclude) puts it into the list of b1 alone
OneSided == <<NewObj("Intersection", "b1", "player", MaxEventTime, MaxEventTime, {"b1"})>>

InitReset ==
    /\ clock = 0
    /\ pc = "run"
    /\ current_time = 0
    /\ game_time = 0
    /\ _next_frame_time = 0
    /\ _speed = 1
    /\ _real_speed = None
    /\ \E q \in InitQueues, extra \in {<<>>, OneSided} :
        /\ objs = q \o extra
        /\ game_events = [i \in 1..Len(q) |-> i]
    /\ real_events = <<>>
    /\ _CurrentState = [polled |-> FALSE, pressed |-> {}]
    /\ resting = [e \in Collidables |-> <<>>]
    /\ nkeys = 0
    /\ nhits = 0
    /\ budget = [keys |-> 0, hits |-> MaxHits]
    /\ ever_paused = FALSE
    /\ dispatched_at = 0
    /\ last = NoLast
    /\ \E p, v, a \in SetVectors :
          probe = [op |-> "reset", ent |-> NewEntity(TRUE, p, v, a, RestitutionDen),
                   calls |-> 0, at |-> 0, pre |-> <<>>, ret |-> <<>>,
                   ch |-> [pr \in {} |-> None], moved |-> FALSE]

ResetRest == <<clock, pc, current_time, game_time, _next_frame_time, _speed, _real_speed,
               game_events, real_events, _CurrentState, resting, nkeys, budget, ever_paused,
               dispatched_at, last>>

\* the handler of the reset key runs at the current game time; pre is the event
\* objects as they were before it, moved whether the player was away from the
\* level's initial state
ResetPlayer ==
    /\ probe.op = "reset"
    /\ probe.calls < MaxCalls
    /\ \E ch \in Findings(PairsOf("player", NoEntity)) :
          LET r == reset_player(probe.ent, objs, game_time, ch)
          IN  /\ objs' = r.objs
              /\ nhits' = nhits + Hits(ch)
              /\ probe' = [probe EXCEPT
                              !.ent = r.ent, !.calls = @ + 1, !.at = game_time, !.pre = objs,
                              !.ret = r.ret, !.ch = ch,
                              !.moved = /\ Entity_position(probe.ent, game_time) # _PlayerPosition
                                        /\ Entity_velocity(probe.ent, game_time) # _PlayerVelocity]
    /\ UNCHANGED ResetRest

NextReset == Elapse \/ ResetPlayer

SpecReset == InitReset /\ [][NextReset]_vars

\* C21: after the reset action has run, the player's position and velocity at
\* that game time are the level's initial player position and velocity; every
\* intersection that was in the player's list, and every queued intersection the
\* player takes part in, is invalid; and for every other collidable the predictor
\* found an impact with, a new valid intersection of the player with it is among
\* the game events returned, which are those and no others.
C21_Reset ==
    (probe.op = "reset" /\ probe.calls >= 1) =>
        /\ Entity_position(probe.ent, probe.at) = _PlayerPosition
        /\ Entity_velocity(probe.ent, probe.at) = _PlayerVelocity
        /\ \A j \in DOMAIN probe.pre : "player" \in probe.pre[j].lists => objs[j].invalid
        /\ \A k \in 1..Len(game_events) :
              "player" \in {objs[game_events[k]].ent, objs[game_events[k]].oth}
              => objs[game_events[k]].invalid
        /\ Len(probe.ret) = Hits(probe.ch)
        /\ \A k \in 1..Len(probe.ret) : probe.ret[k] \notin DOMAIN probe.pre
        /\ \A o \in Collidables \ {"player"} :
              probe.ch[<<"player", o>>] # None =>
                 \E k \in 1..Len(probe.ret) :
                    /\ objs[probe.ret[k]].cls = "Intersection"
                    /\ objs[probe.ret[k]].ent = "player" /\ objs[probe.ret[k]].oth = o
                    /\ objs[probe.ret[k]].time = probe.at + probe.ch[<<"player", o>>]
                    /\ ~objs[probe.ret[k]].invalid

\* the reset ran after game time had passed, on a player away from its initial
\* state, with an intersection of the player queued and valid, and returned a
\* new intersection
C21_Witness ==
    /\ probe.op = "reset"
    /\ probe.calls = 1
    /\ probe.at > 0
    /\ probe.moved
    /\ \E k \in 1..Len(game_events) :
          /\ "player" \in probe.pre[game_events[k]].lists
          /\ ~probe.pre[game_events[k]].invalid
    /\ probe.ret # <<>>

\* ---------------------------------------------------------------------------
\* The quit action in the tick loop.

\* C22: the step that runs the quit handler leaves the tick loop through the
\* Quit exception (pc = "quit": the except clause of run, not an error), and from
\* then on nothing changes: no event of either queue is dispatched or removed,
\* and game_time and current_time stay where the dispatch of the quit key put them.
C22_QuitStops ==
    [][/\ last'.how = "quit" => pc' = "quit"
       /\ pc = "quit" =>
             /\ pc' = "quit"
             /\ last' = last
             /\ game_time' = game_time
             /\ current_time' = current_time
             /\ game_events' = game_events
             /\ real_events' = real_events]_vars

\* the quit handler has run while a valid game event and another key event were
\* still queued
C22_Witness ==
    /\ pc = "quit"
    /\ last.kind = "real" /\ last.key = "quit" /\ last.how = "quit"
    /\ game_events # <<>>
    /\ ~objs[Head(game_events)].invalid
    /\ Len(real_events) >= 2

\* ---------------------------------------------------------------------------
\* The speed property of the game, written and paused in any order.

\* _Game.speed (setter): the pair <<_speed, _real_speed>> after  self.speed = s,
\* and the exception raised
SetSpeed(s, sp, rsp) ==
    [speeds |-> IF ~(rsp # None) THEN <<s, rsp>> ELSE <<sp, s>>, raise |-> "none"]

\* the speeds written: a negative one, zero, and the positive ones
SpeedValues == {-MaxSpeed} \cup 0..MaxSpeed

InitSpeed ==
    /\ Constructed
    /\ _speed \in 1..MaxSpeed
    /\ _real_speed = None
    /\ probe = [op |-> "speed", calls |-> <<>>, raise |-> "none", speed |-> _speed,
                was_paused |-> FALSE]

\* game.speed = s; speed and was_paused are what the getters returned before it
WriteSpeed ==
    /\ probe.op = "speed"
    /\ Len(probe.calls) < MaxCalls
    /\ \E s \in SpeedValues :
          LET r == SetSpeed(s, _speed, _real_speed)
          IN  /\ _speed' = r.speeds[1]
              /\ _real_speed' = r.speeds[2]
              /\ probe' = [probe EXCEPT !.calls = Append(@, [op |-> "set", s |-> s]), !.raise = r.raise,
                                        !.speed = speed, !.was_paused = paused]
    /\ UNCHANGED Scheduler

\* game.pause()
FlipPause ==
    /\ probe.op = "speed"
    /\ Len(probe.calls) < MaxCalls
    /\ _speed' = Pause(_speed, _real_speed)[1]
    /\ _real_speed' = Pause(_speed, _real_speed)[2]
    /\ probe' = [probe EXCEPT !.calls = Append(@, [op |-> "pause", s |-> 0]), !.raise = "none",
                              !.speed = speed, !.was_paused = paused]
    /\ UNCHANGED Scheduler

NextSpeed == WriteSpeed \/ FlipPause

SpecSpeed == InitSpeed /\ [][NextSpeed]_vars

\* C23: a write of a speed that is zero or negative raises InvalidSpeedError and
\* leaves the stored speed and the paused state as they were; and whenever the
\* game is not paused its effective speed is positive.
C23_SpeedPositive ==
    (probe.op = "speed" /\ probe.calls # <<>>) =>
        LET c == probe.calls[Len(probe.calls)]
        IN  /\ (c.op = "set" /\ c.s <= 0) =>
                  /\ probe.raise = "InvalidSpeedError"
                  /\ speed = probe.speed
                  /\ paused = probe.was_paused
            /\ ~paused => _speed > 0

\* ---------------------------------------------------------------------------
\* The back-reference lists.

\* C24: every intersection that is alive (queued, or predicted by a handler and
\* returned for scheduling) and not invalid is in the intersections list of both
\* of its participants.
C24_BothLists ==
    \A j \in DOMAIN objs :
        (objs[j].cls = "Intersection" /\ ~objs[j].invalid)
        => {objs[j].ent, objs[j].oth} \subseteq objs[j].lists

\* ---------------------------------------------------------------------------
\* The skips of Intersection.__call__ in the tick loop.

\* the step to come dispatches the head game event, an intersection
DispatchesIntersection ==
    /\ pc = "frame"
    /\ _next_event(_next_frame_time - current_time) = "game"
    /\ objs[Head(game_events)].cls = "Intersection"

\* the handler of the step has left every event object and every resting set as
\* it was (so no velocity or acceleration was written, no list changed, no flag
\* set) and has returned nothing
NothingDone ==
    /\ objs' = Live(objs)
    /\ resting' = resting
    /\ last'.how = "skipped"
    /\ last'.ret = <<>>

\* C25: the dispatch of an intersection whose invalid flag is set writes no
\* velocity or acceleration, changes no resting set and no intersections list,
\* sets no invalid flag, and returns no event.
C25_InvalidSkipped ==
    [][(DispatchesIntersection /\ objs[Head(game_events)].invalid) => NothingDone]_vars

\* an invalid intersection predicted for a later time than its prediction was
\* dispatched while valid intersections were alive
C25_Witness ==
    /\ last.kind = "game"
    /\ last.how = "skipped"
    /\ last.id \in DOMAIN objs
    /\ objs[last.id].invalid
    /\ objs[last.id].del_time # 0
    /\ \E j \in DOMAIN objs : ~objs[j].invalid /\ objs[j].lists # {}

\* the offsets from the prediction time that lie around EPSILON on the fine grid
NearZero == {-2 * EPSILON, -EPSILON, 1 - EPSILON, -1, 0, 1, EPSILON - 1, EPSILON, 2 * EPSILON}

\* C26: the dispatch of a valid intersection whose del_time, the offset of its
\* time from the game time of its prediction, is within EPSILON of zero writes no
\* velocity or acceleration, records no resting contact, sets no invalid flag and
\* returns no event; and "within EPSILON of zero" is what FloatEqual(del_time, 0)
\* tests.  On the millisecond grid of the tick loop EPSILON is less than a step:
\* the offsets within EPSILON of zero are those of absolute value below 1.
C26_JustHappenedSkipped ==
    /\ [][(/\ DispatchesIntersection
           /\ ~objs[Head(game_events)].invalid
           /\ Abs(objs[Head(game_events)].del_time) < 1) => NothingDone]_vars
    /\ [](\A d \in NearZero : FloatEqualGrid(d, 0) <=> Abs(d) < EPSILON)

\* a valid intersection predicted for the very game time of its prediction was
\* dispatched, with no resting contact recorded
C26_Witness ==
    /\ last.kind = "game"
    /\ last.how = "skipped"
    /\ last.id \in DOMAIN objs
    /\ ~objs[last.id].invalid
    /\ objs[last.id].del_time = 0
    /\ \A e \in Collidables : resting[e] = <<>>

\* ---------------------------------------------------------------------------
\* Resting contacts and the intersections of their pair.

\* the contact c is one of the entities a and b, for the point and line of x
ContactOf(c, x) ==
    /\ {c.ent, c.oth} = {x.ent, x.oth}
    /\ c.point_index = x.point_index
    /\ c.line_index = x.line_index

\* a resting contact of the two participants of x, for its point and line, is
\* recorded with one of them
Covered(x) ==
    \E e \in {x.ent, x.oth} : \E k \in 1..Len(resting[e]) : ContactOf(resting[e][k], x)

\* C27: while a resting contact of two entities is recorded for a point and a
\* line, the dispatch of an intersection of the two with that point and line
\* reflects nothing and records no contact (it changes no event object and no
\* resting set and returns nothing); and no resting set holds two contacts of the
\* same two entities for the same point and line.
C27_OneContact ==
    /\ [][(DispatchesIntersection /\ Covered(objs[Head(game_events)])) => NothingDone]_vars
    /\ [](\A e \in Collidables : \A k, l \in 1..Len(resting[e]) :
             (k # l) => ~ContactOf(resting[e][k], resting[e][l]))

\* a valid intersection, predicted for a later time than its prediction, of two
\* entities in resting contact was dispatched and skipped
C27_Witness ==
    /\ last.kind = "game"
    /\ last.how = "skipped"
    /\ last.id \in DOMAIN objs
    /\ objs[last.id].cls = "Intersection"
    /\ ~objs[last.id].invalid
    /\ objs[last.id].del_time # 0
    /\ Covered(objs[last.id])

\* ---------------------------------------------------------------------------
\* The resting transition, with the mobile participant on either side of the event.

\* the collisions of a mobile entity and another one, the mobile one being the
\* event's ent or its oth
InitRest ==
    /\ Constructed
    /\ _speed = 1
    /\ _real_speed = None
    /\ \E v \in Velocities, a \in Accelerations, d \in Directions, e \in Restitutions,
          o \in Others, swap \in BOOLEAN :
          LET mobile == NewEntity(TRUE, Vector(0, 0), v, a, e)
              x == IF swap THEN o ELSE mobile
              y == IF swap THEN mobile ELSE o
          IN  probe = [op |-> "collide", how |-> "none", d |-> d, normal |-> Vector(0, 0),
                       ent |-> x, oth |-> y, pre_ent |-> x, pre_oth |-> y]

SpecRest == InitRest /\ [][NextCollide]_vars

\* the velocity and the acceleration of the event's ent relative to its oth,
\* after the response and before it
RelVel == Vector_sub(Entity_velocity(probe.ent, game_time), Entity_velocity(probe.oth, game_time))
RelAcc == Vector_sub(Entity_acceleration(probe.ent), Entity_acceleration(probe.oth))

\* C28: right after a resting transition the relative velocity and the relative
\* acceleration of the two participants have no component along the impact
\* normal; the participant that was changed is the event's ent when that is
\* mobile and its oth when it is not, the other one is as it was; and the
\* components of the mover's velocity and acceleration along the segment are
\* what they were.
C28_RestingTransition ==
    (probe.op = "collide" /\ probe.how = "resting") =>
        LET swap == ~probe.pre_ent.mobile
            mover == IF swap THEN probe.oth ELSE probe.ent
            before == IF swap THEN probe.pre_oth ELSE probe.pre_ent
        IN  /\ Vector_dot(RelVel, probe.normal) = 0
            /\ Vector_dot(RelAcc, probe.normal) = 0
            /\ mover.mobile
            /\ IF swap THEN probe.ent = probe.pre_ent ELSE probe.oth = probe.pre_oth
            /\ Vector_dot(Entity_velocity(mover, game_time), probe.d)
                  = Vector_dot(Entity_velocity(before, game_time), probe.d)
            /\ Vector_dot(Entity_acceleration(mover), probe.d)
                  = Vector_dot(Entity_acceleration(before), probe.d)

\* a resting transition after game time has passed, on a slanted segment, of an
\* event whose ent is not mobile: its oth had a velocity along the normal and
\* along the segment, and lost the first
C28_Witness ==
    /\ probe.op = "collide"
    /\ probe.how = "resting"
    /\ game_time > 0
    /\ ~probe.pre_ent.mobile
    /\ probe.normal[1] # 0 /\ probe.normal[2] # 0
    /\ Vector_dot(Entity_velocity(probe.pre_oth, game_time), probe.normal) # 0
    /\ Vector_dot(Entity_velocity(probe.pre_oth, game_time), probe.d) # 0
    /\ Entity_acceleration(probe.oth) # Entity_acceleration(probe.pre_oth)

\* ---------------------------------------------------------------------------
\* The two resting sets of a contact.

\* the contact that the resolution of event x records
EventContact(x) ==
    [ent |-> x.ent, oth |-> x.oth, point_index |-> x.point_index, line_index |-> x.line_index]

InSet(c, e) == \E k \in 1..Len(resting[e]) : resting[e][k] = c

\* C29: every contact in a resting set is a contact of that entity and is in the
\* resting set of its other participant too; and the contact a resting transition
\* records names the event's ent, oth, point_index and line_index, whichever of
\* the two was the mover.
C29_BothSets ==
    /\ \A e \in Collidables : \A k \in 1..Len(resting[e]) :
          /\ e \in {resting[e][k].ent, resting[e][k].oth}
          /\ InSet(resting[e][k], resting[e][k].ent)
          /\ InSet(resting[e][k], resting[e][k].oth)
    /\ (last.kind = "game" /\ last.how \in {"resting", "error"} /\ last.id \in DOMAIN objs) =>
          /\ InSet(EventContact(objs[last.id]), objs[last.id].ent)
          /\ InSet(EventContact(objs[last.id]), objs[last.id].oth)

\* a resting transition of an event whose ent is not mobile, so that its oth was
\* the mover
C29_Witness ==
    /\ last.kind = "game"
    /\ last.how = "resting"
    /\ last.id \in DOMAIN objs
    /\ objs[last.id].ent \notin Movables
    /\ InSet(EventContact(objs[last.id]), objs[last.id].oth)

\* ---------------------------------------------------------------------------
\* The end of a resting contact, computed: find_stop_resting on the grid on
\* which FloatEqual is equality and EPSILON is less than a step.

\* a / |a| . v for a vector a parallel to an axis or a 3-4-5 direction
Unit_dot(v, a) == Normal_dot(v, Vector_normalized(a))

\* find_stop_resting(ent, oth, point_index, line_index, provider) for the shaped
\* entities A and B at game time gt: the exception raised, if any, and the time
\* of the StopResting event returned
find_stop_resting(A, B, point_index, line_index, gt) ==
    LET rel_vel == Vector_sub(Entity_velocity(A.ent, gt), Entity_velocity(B.ent, gt))
        rel_acc == Vector_sub(Entity_acceleration(A.ent), Entity_acceleration(B.ent))
        cur_pos == PosPoints(A.ent, A.shape, gt)[point_index]
        cur_line == Shape_lines(PosPoints(B.ent, B.shape, gt), B.enclosed)[line_index]
        direction == Vector_sub(cur_line[2], cur_line[1])
        distance_vec1 == Vector_sub(cur_line[2], cur_pos)
        distance_vec2 == Vector_sub(cur_line[1], cur_pos)
        \* the roots of .5 * acc_mag * t^2 + vel_mag * t - d = 0 that are > -EPSILON
        Times(distance_vec, line_dir) ==
            LET r == find_roots(Unit_dot(rel_acc, line_dir), Unit_dot(rel_vel, line_dir),
                                -Vector_length(distance_vec))
            IN  {r.roots[k] : k \in {j \in 1..Len(r.roots) : r.roots[j] >= 0}}
        Min(S) == CHOOSE t \in S : \A u \in S : t <= u
        Stop(times) ==
            IF times = {} THEN [raise |-> "AssertionError", time |-> 0]
            ELSE [raise |-> "none", time |-> gt + Min(times)]
    IN  IF ~SegmentContainsPoint(cur_line[1], cur_line[2], cur_pos)
        THEN [raise |-> "ValueError", time |-> 0]
        ELSE IF Vector_dot(distance_vec1, rel_vel) > 0
        THEN Stop(Times(distance_vec1, direction))
        ELSE IF ~(Vector_dot(distance_vec2, rel_vel) > 0)
        THEN [raise |-> "AssertionError", time |-> 0]
        ELSE Stop(Times(distance_vec2, Vector_neg(direction)))

\* the coefficients find_stop_resting gives find_roots are on the grid
StopOnGrid(A, B, gt) ==
    LET rel_vel == Vector_sub(Entity_velocity(A.ent, gt), Entity_velocity(B.ent, gt))
        rel_acc == Vector_sub(Entity_acceleration(A.ent), Entity_acceleration(B.ent))
        cur_pos == PosPoints(A.ent, A.shape, gt)[1]
        cur_line == Shape_lines(PosPoints(B.ent, B.shape, gt), B.enclosed)[1]
        direction == Vector_sub(cur_line[2], cur_line[1])
    IN  \A s \in {1, 2} :
           LET dv == Vector_sub(cur_line[3 - s], cur_pos)
               dir == IF s = 1 THEN direction ELSE Vector_neg(direction)
           IN  (Unit_dot(rel_vel, dir) > 0 /\ dv # Vector(0, 0)) =>
                  OnGrid(Unit_dot(rel_acc, dir), Unit_dot(rel_vel, dir), -Vector_length(dv))

\* a point in contact with the floor, sliding along it: where it touches, and its
\* velocity and acceleration, which have no component along the floor's normal
ContactPoints == {Vector(-4, 0), Vector(0, 0), Vector(4, 0), Vector(8, 0)}
SlideVelocities == {Vector(x, 0) : x \in {-6, -4, -2, 0, 2, 4, 6}}
SlideAccelerations == {Vector(x, 0) : x \in {-2, 0, 2}}

InitSlide ==
    /\ Constructed
    /\ _speed = 1
    /\ _real_speed = None
    /\ \E c \in ContactPoints, v \in SlideVelocities, a \in SlideAccelerations,
          mobile \in BOOLEAN :
          probe = [op |-> "slide", called |-> FALSE, at |-> 0,
                   result |-> [raise |-> "none", time |-> 0],
                   A |-> [ent |-> NewEntity(TRUE, Vector(0, 0), v, a, RestitutionDen),
                          shape |-> <<c>>, enclosed |-> TRUE],
                   B |-> [ent |-> NewEntity(mobile, Vector(0, 0), Vector(0, 0), Vector(0, 0),
                                             RestitutionDen),
                          shape |-> FloorShape, enclosed |-> FALSE]]

\* the resting branch of Intersection.__call__ calls find_stop_resting at the
\* current game time
FindStopResting ==
    /\ probe.op = "slide"
    /\ ~probe.called
    /\ StopOnGrid(probe.A, probe.B, game_time)
    /\ probe' = [probe EXCEPT !.called = TRUE, !.at = game_time,
                              !.result = find_stop_resting(probe.A, probe.B, 1, 1, game_time)]
    /\ UNCHANGED <<game_time, Idle>>

NextSlide == Elapse \/ FindStopResting

SpecSlide == InitSlide /\ [][NextSlide]_vars

\* the velocity of A relative to B along the floor, at the call
SlideSpeed ==
    Vector_dot(Vector_sub(Entity_velocity(probe.A.ent, probe.at),
                          Entity_velocity(probe.B.ent, probe.at)), Vector(1, 0))

\* C30: when find_stop_resting is called for a contact whose relative velocity
\* along the segment is not zero, it raises nothing (the equation has a root
\* greater than -EPSILON and no assertion fails) and the StopResting event it
\* returns is not due before the game time of the call.
C30_StopTimeExists ==
    (probe.op = "slide" /\ probe.called /\ SlideSpeed # 0) =>
        /\ probe.result.raise = "none"
        /\ probe.result.time >= probe.at

\* ---------------------------------------------------------------------------
\* The end of a resting contact that does not slide.

\* C31: when find_stop_resting is called for a contact whose relative velocity
\* along the segment is zero, the resting transition is not aborted: the call
\* raises nothing, and a StopResting event it returns is due at +infinity.
C31_RestingWithoutSliding ==
    (probe.op = "slide" /\ probe.called /\ SlideSpeed = 0) =>
        /\ probe.result.raise = "none"
        /\ probe.result.time = INFINITY

\* ---------------------------------------------------------------------------
\* ParabolaLineCollision called as tests/test_physics.py calls it: for one point
\* and one line, with a velocity and an acceleration, at some game time.  The
\* inputs are those whose roots lie on the grid.

\* the exception that leaves ParabolaLineCollision: find_roots is only called
\* with a non-zero acceleration, inside a try that catches InequalityError and
\* EquationIdentity
ParabolaLineCollision_raise(pos, velocity, acceleration, line) ==
    LET k == Coefficients(pos, velocity, acceleration, line)
        r == find_roots(k.a2, k.b, k.c)
    IN  IF acceleration = Vector(0, 0) THEN "none"
        ELSE IF r.raise \in {"InequalityError", "EquationIdentity"} THEN "none"
        ELSE r.raise

\* the list ParabolaLineCollision returns: one Intersection per root
ParabolaLineCollision_list(pos, velocity, acceleration, line, gt) ==
    LET roots == ParabolaLineCollision(pos, velocity, acceleration, line)
    IN  [j \in 1..Len(roots) |-> FineIntersection(roots[j], gt)]

ParabolaLines ==
    {Line(Vector(-4, 0), Vector(8, 0)), Line(Vector(0, -4), Vector(0, 8)),
     Line(Vector(0, 0), Vector(4, 4))}
ParabolaPositions == {Vector(0, 0), Vector(0, 4), Vector(0, -3), Vector(0, -4), Vector(4, 0)}
ParabolaVelocities ==
    {Vector(0, 0), Vector(2, 0), Vector(0, 4), Vector(0, 3), Vector(0, 2), Vector(2, 2)}
ParabolaAccelerations == {Vector(0, 0), Vector(0, -2), Vector(2, 0), Vector(-2, -2)}

InitParabola ==
    /\ Constructed
    /\ _speed = 1
    /\ _real_speed = None
    /\ \E pos \in ParabolaPositions, velocity \in ParabolaVelocities,
          acceleration \in ParabolaAccelerations, line \in ParabolaLines :
          probe = [op |-> "parabola", called |-> FALSE, at |-> 0, raise |-> "none",
                   found |-> <<>>, pos |-> pos, velocity |-> velocity,
                   acceleration |-> acceleration, line |-> line]

\* ParabolaLineCollision(provider, point_index, velocity, acceleration,
\* line_index, ent, oth) at the current game time
CallParabolaLineCollision ==
    /\ probe.op = "parabola"
    /\ ~probe.called
    /\ LET k == Coefficients(probe.pos, probe.velocity, probe.acceleration, probe.line)
       IN  OnGrid(k.a2, k.b, k.c)
    /\ probe' = [probe EXCEPT
                   !.called = TRUE,
                   !.at = game_time,
                   !.raise = ParabolaLineCollision_raise(probe.pos, probe.velocity,
                                                         probe.acceleration, probe.line),
                   !.found = ParabolaLineCollision_list(probe.pos, probe.velocity,
                                                        probe.acceleration, probe.line,
                                                        game_time)]
    /\ UNCHANGED <<game_time, Idle>>

NextParabola == Elapse \/ CallParabolaLineCollision

SpecParabola == InitParabola /\ [][NextParabola]_vars

\* the line-crossing equation of the call: (a2 / 2) t^2 + b t + c = 0
Crossing == Coefficients(probe.pos, probe.velocity, probe.acceleration, probe.line)

\* C32: when the quadratic and the linear coefficient of the line-crossing
\* equation are both zero, ParabolaLineCollision returns no intersection, with
\* the point on the line or off it and with a zero or a non-zero acceleration,
\* and neither EquationIdentity nor InequalityError leaves it.
C32_ParallelNoRoots ==
    (probe.op = "parabola" /\ probe.called /\ Crossing.a2 = 0 /\ Crossing.b = 0) =>
        /\ probe.raise = "none"
        /\ probe.found = <<>>

\* the number of real roots of the line-crossing equation, which is not the
\* identity 0 = 0, and what it is to be one of them
CrossingRoots ==
    LET k == Crossing
        discriminant == k.b * k.b - 2 * k.a2 * k.c
    IN  IF k.a2 = 0 THEN (IF k.b = 0 THEN 0 ELSE 1)
        ELSE IF discriminant < 0 THEN 0
        ELSE IF discriminant = 0 THEN 1
        ELSE 2
IsCrossing(t) == Crossing.a2 * t * t + 2 * Crossing.b * t + 2 * Crossing.c = 0

\* C33: ParabolaLineCollision returns one intersection for each real root of the
\* line-crossing equation (none, one or two), of either sign; the del_time of
\* each is the root and its time is the game time of the call plus the root.
\* Only _parabola_line_collision_wrapper drops those with del_time <= -EPSILON.
C33_OnePerRoot ==
    (/\ probe.op = "parabola"
     /\ probe.called
     /\ ~(Crossing.a2 = 0 /\ Crossing.b = 0 /\ Crossing.c = 0)) =>
        LET found == probe.found
            D == DOMAIN found
        IN  /\ Len(found) = CrossingRoots
            /\ \A i, j \in D : found[i].del_time = found[j].del_time => i = j
            /\ \A i \in D : /\ IsCrossing(found[i].del_time)
                            /\ found[i].time = probe.at + found[i].del_time
            /\ _parabola_line_collision_wrapper({Grid * found[i].del_time : i \in D},
                                                Grid * probe.at)
                  = {FineIntersection(Grid * found[i].del_time, Grid * probe.at) :
                        i \in {j \in D : found[j].del_time >= 0}}

\* a call late in the run that finds a crossing in the past and one to come
C33_Witness ==
    /\ probe.op = "parabola"
    /\ probe.called
    /\ probe.at > 0
    /\ Len(probe.found) = 2
    /\ \E i, j \in DOMAIN probe.found :
          probe.found[i].del_time < 0 /\ probe.found[j].del_time > 0

\* ---------------------------------------------------------------------------
\* A body bouncing on a floor: each resolution of Intersection.__call__ is
\* followed by the dispatch of the intersections it returns for the pair, at
\* their times, and nothing else writes the trajectory.

MaxBounces == 6           \* resolutions of the pair over a run

BounceFloor == <<Vector(-4, 0), Vector(8000, 0)>>
BounceSpeeds == {200, 400, 800, 1600, 3200}
BounceDrifts == {0, 4}
BounceGravity == Vector(0, -2)

InitBounce ==
    /\ Constructed
    /\ _speed = 1
    /\ _real_speed = None
    /\ \E u \in BounceSpeeds, w \in BounceDrifts, e \in 1..RestitutionDen,
          f \in 0..RestitutionDen :
          \* a drifting body reflects twice at restitution 1/2, which keeps its
          \* velocity on the grid and its point over the floor
          /\ w # 0 => (e * f = RestitutionDen /\ u <= 4 * RESTING_THRESHOLD)
          /\ probe = [op |-> "bounce", loaded |-> FALSE, found |-> {}, hits |-> <<>>,
                      skipped |-> 0,
                      A |-> [ent |-> NewEntity(TRUE, Vector(0, 0), Vector(w, u), BounceGravity, e),
                             shape |-> <<Vector(0, 0)>>, enclosed |-> FALSE],
                      B |-> [ent |-> NewEntity(FALSE, Vector(0, 0), Vector(0, 0), Vector(0, 0), f),
                             shape |-> BounceFloor, enclosed |-> FALSE]]

\* the level is loaded: the intersections of the pair are predicted
BounceLoad ==
    /\ probe.op = "bounce"
    /\ ~probe.loaded
    /\ PairOnGrid(probe.A, probe.B, game_time)
    /\ probe' = [probe EXCEPT !.loaded = TRUE,
                              !.found = pair_intersections(probe.A, probe.B, game_time)]
    /\ UNCHANGED <<game_time, Idle>>

\* game time passes to the next intersection of the pair, and it is dispatched:
\* Intersection.__call__ skips it when it just happened, and otherwise responds,
\* invalidates what was predicted and predicts anew
Bounce ==
    /\ probe.op = "bounce"
    /\ probe.loaded
    /\ Len(probe.hits) < MaxBounces
    /\ \E i \in probe.found :
          /\ \A j \in probe.found : i.time <= j.time
          /\ game_time' = i.time
          /\ IF FloatEqual(i.del_time, 0)
             THEN probe' = [probe EXCEPT !.found = probe.found \ {i},
                                         !.skipped = IF probe.skipped < 2 THEN probe.skipped + 1
                                                     ELSE probe.skipped]
             ELSE LET line == Shape_lines(PosPoints(probe.B.ent, probe.B.shape, i.time),
                                          probe.B.enclosed)[i.line_index]
                      r == Respond(probe.A.ent, probe.B.ent, i.time,
                                   Vector_sub(line[2], line[1]))
                      A == [probe.A EXCEPT !.ent = r.ent]
                      B == [probe.B EXCEPT !.ent = r.oth]
                  IN  /\ r.how = "reflected" => PairOnGrid(A, B, i.time)
                      /\ probe' = [probe EXCEPT
                                     !.A = A,
                                     !.B = B,
                                     !.hits = Append(probe.hits,
                                                     [time |-> i.time, how |-> r.how,
                                                      point_index |-> i.point_index,
                                                      line_index |-> i.line_index]),
                                     !.found = IF r.how = "resting" THEN {}
                                               ELSE pair_intersections(A, B, i.time)]
    /\ UNCHANGED Idle

NextBounce == BounceLoad \/ Bounce

SpecBounce == InitBounce /\ [][NextBounce]_vars

\* the combined restitution of the pair, over RestitutionDen^2
Bounciness == probe.A.ent.restitution * probe.B.ent.restitution

\* resolutions k and k + 1 of the pair are reflections of one point on one segment
Rebound(k) ==
    /\ probe.hits[k].how = "reflected"
    /\ probe.hits[k + 1].how = "reflected"
    /\ probe.hits[k].point_index = probe.hits[k + 1].point_index
    /\ probe.hits[k].line_index = probe.hits[k + 1].line_index

MaxPolls == 4             \* polls of the keyboard over a run

JetpackKeys == <<"jetpack_up", "jetpack_left", "jetpack_right">>
JetpackKeySet == {JetpackKeys[i] : i \in 1..Len(JetpackKeys)}
Gravity == Vector(0, -4)
\* the vector each handler adds to the acceleration when on
JetpackVector(key) ==
    IF key = "jetpack_up" THEN Vector(0, 6)
    ELSE IF key = "jetpack_left" THEN Vector(-4, 0)
    ELSE Vector(4, 0)

\* Player._jetpack_up, _jetpack_left, _jetpack_right (on): the velocity is
\* rebased, the vector is added or subtracted
_jetpack(e, gt, key, on) ==
    LET e1 == set_velocity(e, gt, Entity_velocity(e, gt))
    IN  set_acceleration(e1, gt,
                         IF on THEN Vector_add(Entity_acceleration(e1), JetpackVector(key))
                         ELSE Vector_sub(Entity_acceleration(e1), JetpackVector(key)))

\* an input adapter that reports the keys that are down, not the keys that went
\* down
RECURSIVE JetpackKeyEvents_level(_, _, _, _)
JetpackKeyEvents_level(i, was, now, t) ==
    IF i > Len(JetpackKeys) THEN <<>>
    ELSE <<[time |-> t, key |-> JetpackKeys[i], press |-> JetpackKeys[i] \in now,
            invalid |-> FALSE]>>
         \o JetpackKeyEvents_level(i + 1, was, now, t)

\* check_for_new_events for the jetpack keys: the loop enumerates the stored
\* snapshot, which is [] before the first poll
RECURSIVE JetpackKeyEvents(_, _, _, _)
JetpackKeyEvents(i, was, now, t) ==
    IF i > Len(JetpackKeys) THEN <<>>
    ELSE LET k == JetpackKeys[i]
             press == IF k \in now /\ k \notin was
                      THEN <<[time |-> t, key |-> k, press |-> TRUE, invalid |-> FALSE]>>
                      ELSE <<>>
             release == IF k \in was /\ k \notin now
                        THEN <<[time |-> t, key |-> k, press |-> FALSE, invalid |-> FALSE]>>
                        ELSE <<>>
         IN  press \o release \o JetpackKeyEvents(i + 1, was, now, t)

InitJetpack ==
    /\ Constructed
    /\ _speed = 1
    /\ _real_speed = None
    /\ probe = [op |-> "jetpack", polls |-> 0,
                player |-> NewEntity(TRUE, Vector(0, 0), Vector(0, 0), Gravity, RestitutionDen),
                on |-> [k \in JetpackKeySet |-> 0], unpaired |-> FALSE, first |-> {},
                trail |-> [k \in JetpackKeySet |-> <<>>]]

JetpackRest == <<pc, current_time, _next_frame_time, _speed, _real_speed, game_events, objs,
                 resting, nkeys, nhits, budget, ever_paused, dispatched_at, last>>

\* event.update: a millisecond later the keyboard is polled with the keys of now
\* down, and the key events go into the real queue
JetpackPoll ==
    /\ probe.op = "jetpack"
    /\ probe.polls < MaxPolls
    /\ \E now \in SUBSET JetpackKeySet :
          LET key_events ==
                 IF _CurrentState.polled
                 THEN JetpackKeyEvents(1, _CurrentState.pressed, now, (clock + 1) * Den)
                 ELSE <<>>
              \* what the poll emits for key k, press (TRUE) or release (FALSE)
              Of(k) == [i \in 1..Len(SelectSeq(key_events, LAMBDA e : e.key = k)) |->
                          SelectSeq(key_events, LAMBDA e : e.key = k)[i].press]
          IN  /\ clock' = clock + 1
              /\ game_time' = game_time + 1
              /\ real_events' = real_events \o key_events
              /\ _CurrentState' = [polled |-> TRUE, pressed |-> now]
              /\ probe' = [probe EXCEPT
                             !.polls = @ + 1,
                             !.first = IF probe.polls = 0 THEN now ELSE @,
                             !.trail = [k \in JetpackKeySet |-> probe.trail[k] \o Of(k)]]
    /\ UNCHANGED JetpackRest

\* the head of the real queue is dispatched: _KeyPress.__call__ and
\* _KeyRelease.__call__ run the toggle handler bound to the key, with True and
\* with False
JetpackDispatch ==
    /\ probe.op = "jetpack"
    /\ real_events # <<>>
    /\ LET ev == Head(real_events)
       IN  probe' = [probe EXCEPT
                       !.player = _jetpack(probe.player, game_time, ev.key, ev.press),
                       !.on[ev.key] = IF ev.press THEN @ + 1 ELSE @ - 1,
                       !.unpaired = @ \/ (~ev.press /\ probe.on[ev.key] = 0)]
    /\ real_events' = Tail(real_events)
    /\ UNCHANGED <<clock, game_time, _CurrentState, JetpackRest>>

NextJetpack == JetpackPoll \/ JetpackDispatch

SpecJetpack == InitJetpack /\ [][NextJetpack]_vars

RECURSIVE Vector_sum(_)
Vector_sum(S) ==
    IF S = {} THEN Vector(0, 0)
    ELSE LET k == CHOOSE x \in S : TRUE
         IN  Vector_add(JetpackVector(k), Vector_sum(S \ {k}))

\* what C35 says of a run
JetpackPaired ==
    /\ ~probe.unpaired
    /\ \A k \in JetpackKeySet : probe.on[k] \in {0, 1}
    /\ real_events = <<>> =>
          Entity_acceleration(probe.player)
             = Vector_add(Gravity, Vector_sum(_CurrentState.pressed))

\* C35: no toggle handler is called with off unless its last call before was
\* with on, whatever keys are down at any poll from the first on; so once every
\* key event is dispatched, the acceleration of the player is gravity plus the
\* vectors of the jetpack keys that are down.
C35_JetpackPaired == probe.op = "jetpack" => JetpackPaired

\* C36: over any sequence of polls the key events emitted for one key alternate
\* between KeyPress and KeyRelease: no two presses of a key without a release of
\* it between them, and no two releases without a press.
C36_Alternate ==
    probe.op = "jetpack" =>
        \A k \in JetpackKeySet :
            \A i \in 1..(Len(probe.trail[k]) - 1) :
                probe.trail[k][i] # probe.trail[k][i + 1]

\* a key held at the first poll is released, pressed and released again
C36_Witness ==
    /\ probe.op = "jetpack"
    /\ probe.trail["jetpack_left"] = <<FALSE, TRUE, FALSE>>
    /\ probe.trail["jetpack_up"] = <<TRUE, FALSE>>

\* ---------------------------------------------------------------------------
\* The handler groups of a key event.  Every group of the key has one handler
\* registered, which either only reports that it ran or is flip_pause_state.

\* the groups _KeyPress.__call__ (press) and _KeyRelease.__call__ run before and
\* after reading provider.paused, with the argument each passes to a toggle group
RealGroups(press) ==
    <<[group |-> IF press THEN "KeyPressRealEvent[key]" ELSE "KeyReleaseRealEvent[key]",
       on |-> "none"],
      [group |-> "KeyToggleRealEvent[key]", on |-> IF press THEN "True" ELSE "False"],
      [group |-> IF press THEN "KeyPressRealEvent" ELSE "KeyReleaseRealEvent", on |-> "none"],
      [group |-> "KeyToggleRealEvent", on |-> IF press THEN "True" ELSE "False"]>>
GameGroups(press) ==
    <<[group |-> IF press THEN "KeyPressGameEvent[key]" ELSE "KeyReleaseGameEvent[key]",
       on |-> "none"],
      [group |-> "KeyToggleGameEvent[key]", on |-> IF press THEN "True" ELSE "False"],
      [group |-> IF press THEN "KeyPressGameEvent" ELSE "KeyReleaseGameEvent", on |-> "none"],
      [group |-> "KeyToggleGameEvent", on |-> IF press THEN "True" ELSE "False"]>>
GroupNames ==
    {RealGroups(p)[i].group : p \in BOOLEAN, i \in 1..4}
    \cup {GameGroups(p)[i].group : p \in BOOLEAN, i \in 1..4}

\* EventProducerEvent.__call__ of each group of gs in turn, from group i on: the
\* speeds after, and the groups whose handler ran
RECURSIVE RunGroups(_, _, _, _, _)
RunGroups(gs, i, registered, speeds, ran) ==
    IF i > Len(gs) THEN [speeds |-> speeds, ran |-> ran]
    ELSE RunGroups(gs, i + 1, registered,
                   IF registered[gs[i].group] = "flip_pause_state"
                   THEN Pause(speeds[1], speeds[2]) ELSE speeds,
                   Append(ran, gs[i]))

\* a key event that reads provider.paused before it runs any handler
KeyEventCall_early(press, registered, sp, rsp) ==
    LET real == RunGroups(RealGroups(press), 1, registered, <<sp, rsp>>, <<>>)
    IN  IF ~(rsp # None)
        THEN RunGroups(GameGroups(press), 1, registered, real.speeds, real.ran)
        ELSE real

\* _KeyPress.__call__ and _KeyRelease.__call__
KeyEventCall(press, registered, sp, rsp) ==
    LET real == RunGroups(RealGroups(press), 1, registered, <<sp, rsp>>, <<>>)
    IN  IF ~(real.speeds[2] # None)
        THEN RunGroups(GameGroups(press), 1, registered, real.speeds, real.ran)
        ELSE real

InitGroups ==
    /\ Constructed
    /\ \E p \in BOOLEAN : /\ _speed = IF p THEN 0 ELSE 1
                          /\ _real_speed = IF p THEN 1 ELSE None
    /\ \E registered \in [GroupNames -> {"report", "flip_pause_state"}], press \in BOOLEAN :
          probe = [op |-> "groups", called |-> FALSE, was_paused |-> paused, press |-> press,
                   registered |-> registered, ran |-> <<>>]

\* the key event is dispatched
DispatchKeyEvent ==
    /\ probe.op = "groups"
    /\ ~probe.called
    /\ LET r == KeyEventCall(probe.press, probe.registered, _speed, _real_speed)
       IN  /\ _speed' = r.speeds[1]
           /\ _real_speed' = r.speeds[2]
           /\ probe' = [probe EXCEPT !.called = TRUE, !.ran = r.ran]
    /\ UNCHANGED Scheduler

NextGroups == DispatchKeyEvent

SpecGroups == InitGroups /\ [][NextGroups]_vars

\* the game is paused once the real-time handlers of the key event have run: each
\* flip_pause_state among them has flipped the state it was in at the dispatch
PausedAfterReal ==
    LET flips == Cardinality({i \in 1..4 :
                    probe.registered[RealGroups(probe.press)[i].group] = "flip_pause_state"})
    IN  IF flips % 2 = 0 THEN probe.was_paused ELSE ~probe.was_paused

\* C37: a dispatched key event runs its four real-time handler groups, in the
\* order key-specific press or release, key-specific toggle, generic press or
\* release, generic toggle, and then its four game-time groups in the same order
\* exactly when the game is not paused after the real-time handlers have run.
C37_GroupOrder ==
    (probe.op = "groups" /\ probe.called) =>
        IF PausedAfterReal
        THEN probe.ran = RealGroups(probe.press)
        ELSE probe.ran = RealGroups(probe.press) \o GameGroups(probe.press)

\* a press whose key-specific handler unpauses the game runs the game-time groups
C37_Witness ==
    /\ probe.op = "groups"
    /\ probe.called
    /\ probe.press
    /\ probe.was_paused
    /\ ~paused
    /\ probe.registered["KeyPressRealEvent[key]"] = "flip_pause_state"
    /\ Len(probe.ran) = 8

\* ---------------------------------------------------------------------------
\* A jetpack toggle dispatched when an impact of the player is due.  The player
\* is a point thrown up from a floor, on which it falls back; what the handlers
\* return is dispatched at its time.

MaxTie == 4               \* ms of game time a run lasts

TieSpeeds == {2, 4, 6}
TiePlaces == {0, 2, 4}

InitTie ==
    /\ Constructed
    /\ _speed = 1
    /\ _real_speed = None
    /\ \E u \in TieSpeeds, x \in TiePlaces :
          probe = [op |-> "tie", loaded |-> FALSE, keyed |-> FALSE, tied |-> FALSE,
                   at |-> 0,
                   found |-> {}, hits |-> {},
                   A |-> [ent |-> NewEntity(TRUE, Vector(0, 0), Vector(0, u), Gravity,
                                             RestitutionDen),
                          shape |-> <<Vector(x, 0)>>, enclosed |-> FALSE],
                   B |-> [ent |-> NewEntity(FALSE, Vector(0, 0), Vector(0, 0), Vector(0, 0),
                                             RestitutionDen),
                          shape |-> FloorShape, enclosed |-> FALSE]]

TieRest == <<clock, pc, current_time, _next_frame_time, _speed, _real_speed, game_events,
             real_events, _CurrentState, objs, resting, nkeys, nhits, budget, ever_paused,
             dispatched_at, last>>

\* the intersections of the pair predicted at game time gt, not yet invalid
TiePredicted(A, B, gt) ==
    {i @@ [invalid |-> FALSE] : i \in pair_intersections(A, B, gt)}
\* Collidable.invalidate_intersections
TieInvalidated(S) == {[i EXCEPT !.invalid = TRUE] : i \in S}

\* an event is due
TieDue == \E i \in probe.found : i.time <= game_time

\* the level is loaded: the intersections of the player are predicted
TieLoad ==
    /\ probe.op = "tie"
    /\ ~probe.loaded
    /\ PairOnGrid(probe.A, probe.B, game_time)
    /\ probe' = [probe EXCEPT !.loaded = TRUE,
                              !.found = TiePredicted(probe.A, probe.B, game_time)]
    /\ UNCHANGED <<game_time, TieRest>>

\* a millisecond passes in which no event is due
TieElapse ==
    /\ probe.op = "tie"
    /\ probe.loaded
    /\ ~TieDue
    /\ game_time < MaxTie
    /\ game_time' = game_time + 1
    /\ UNCHANGED <<probe, TieRest>>

\* a key event of a jetpack key is dispatched, before the game events due at the
\* same time: the toggle handler writes the trajectory, invalidates the player's
\* intersections and predicts anew
TieKey ==
    /\ probe.op = "tie"
    /\ probe.loaded
    /\ ~probe.keyed
    /\ \E key \in JetpackKeySet :
          LET A == [probe.A EXCEPT !.ent = _jetpack(probe.A.ent, game_time, key, TRUE)]
          IN  /\ PairOnGrid(A, probe.B, game_time)
              /\ probe' = [probe EXCEPT
                             !.keyed = TRUE,
                             !.tied = \E i \in probe.found :
                                         /\ ~i.invalid
                                         /\ i.time = game_time
                                         /\ ~FloatEqual(i.del_time, 0),
                             !.at = game_time,
                             !.A = A,
                             !.found = TieInvalidated(probe.found)
                                       \cup TiePredicted(A, probe.B, game_time)]
    /\ UNCHANGED <<game_time, TieRest>>

\* an intersection that is due is dispatched: Intersection.__call__
TieDispatch ==
    /\ probe.op = "tie"
    /\ \E i \in probe.found :
          /\ i.time <= game_time
          /\ IF i.invalid \/ FloatEqual(i.del_time, 0)
             THEN probe' = [probe EXCEPT !.found = probe.found \ {i}]
             ELSE LET line == Shape_lines(PosPoints(probe.B.ent, probe.B.shape, game_time),
                                          probe.B.enclosed)[i.line_index]
                      r == Respond(probe.A.ent, probe.B.ent, game_time,
                                   Vector_sub(line[2], line[1]))
                      A == [probe.A EXCEPT !.ent = r.ent]
                      B == [probe.B EXCEPT !.ent = r.oth]
                  IN  /\ PairOnGrid(A, B, game_time)
                      /\ probe' = [probe EXCEPT
                                     !.A = A,
                                     !.B = B,
                                     !.hits = probe.hits \cup {game_time},
                                     !.found = TieInvalidated(probe.found \ {i})
                                               \cup TiePredicted(A, B, game_time)]
    /\ UNCHANGED <<game_time, TieRest>>

NextTie == TieLoad \/ TieElapse \/ TieKey \/ TieDispatch

SpecTie == InitTie /\ [][NextTie]_vars

\* the height of the player, and so of its point, over the floor
TieHeight == Entity_position(probe.A.ent, game_time)[2]

\* C38: when a jetpack toggle is dispatched at the time a valid intersection of
\* the player is due, the impact is resolved at that game time once the events
\* due are dispatched, and the player's point does not get below the floor.
C38_TieResolved ==
    (probe.op = "tie" /\ probe.tied) =>
        /\ ~TieDue => probe.at \in probe.hits
        /\ TieHeight >= 0

====
